---- MODULE Spec2Model ----
(***************************************************************************)
(* State-machine model of the chunked upload protocol of nextmu-update:    *)
(* startUploadVersion / uploadVersionChunk (request handlers), the         *)
(* processUpdateFile enqueue and the processUploadVersion worker job.      *)
(* Every await of the source is a separate step of its handler, so that    *)
(* handlers and the worker interleave as they do on the event loop and     *)
(* across processes.                                                       *)
(***************************************************************************)
EXTENDS Integers, Sequences, FiniteSets, TLC

\* ------------------------------------------------------------------ bounds
\* Number of handler invocations (StartUpload + UploadChunk) in one run.
MaxCalls == 3
\* Largest chunk offset a client sends.
MaxOffset == 2
\* Requests issued in the specification with two workers.
MaxWorkerCalls == 4
\* CreateVersion requests issued.
MaxCreates == 3
\* ProcessVersion requests issued.
MaxJobs == 2
\* Times the lock of a job may be lost before the queue fails the job.
MaxStalled == 1
\* Versions created where versions are published.
MaxVersions == 1
\* The versions of the specification of resolve
MaxReleases == 2
\* The versions of the specification of the manifest cache
MaxTrain == 3
\* StartUploadVersion requests that pass the validation
MaxStarts == 2
\* Requests issued in the specification of the epochs.
MaxEpochCalls == 5

\* Files of the largest folder transferred
MaxFiles == 11

\* ------------------------------------------------------------ input domains
\* ObjectId of the one Version the uploads refer to (ObjectIds are numbers;
\* the ids generated by the handlers start at 1).
Versions == {100}
\* Scaled-down chunk and file sizes, in bytes.
ChunkSizes == {2, 4}
FileSizes == {4, 6}
Bytes == {"a", "b"}
\* INPUT_STORAGE_PROVIDER; gcp behaves as aws in every operation modelled.
Providers == {"local", "aws"}
\* Slots for handlers running at the same time.
SUHandlers == {1, 2}
UCHandlers == {1, 2}
CVHandlers == {1, 2}
\* VersionType enum
VersionTypes == {"MAJOR", "MINOR", "REVISION"}
\* VersionState enum
VersionStates == {"PENDING", "PROCESSING", "READY"}
\* Descriptions a manager gives
Descriptions == {"v1", "v2"}
\* Worker processes (UPDATES_QUEUE_PROCESS > 0), each running one job at a time.
Workers == {1, 2}
OneWorker == {1}

\* ------------------------------------------------------------------ strings
\* A string is its text and its letter case (hex digits a-f).
Str(x) == [text |-> x, upper |-> FALSE]
toUpperCase(s) == [s EXCEPT !.upper = TRUE]
toHexString(id) == Str(id)

\* n copies of the byte b
Rep(b, n) == [i \in 1..n |-> b]

\* SHA-256 as a collision-free digest, printed by digest('hex') in lower case.
calculateFileHash(content) == Str(content)

\* The hashes a client declares.
Hashes == {calculateFileHash(Rep("a", 4)), calculateFileHash(Rep("b", 4))}

\* The bytes of a chunk: len copies of one byte.
ChunkData == [len : {0} \cup ChunkSizes, byte : Bytes]
Content(d) == Rep(d.byte, d.len)

\* Math.floor(fileSize / chunkSize), the rounding Math.ceil is compared with
Floor(fileSize, chunkSize) == fileSize \div chunkSize

\* Math.ceil(fileSize / chunkSize)
Ceil(fileSize, chunkSize) == (fileSize + chunkSize - 1) \div chunkSize

\* UploadState enum
UploadStates == {"NONE", "PENDING", "PROCESSING", "READY"}

\* ------------------------------------------------------------------- state
VARIABLES
    provider,   \* the storage provider configured for the Input store
    uploads,    \* collection updates.uploads: a set of rows
    chunks,     \* collection updates.chunks: a set of rows
    blobs,      \* Input store, chunk files: key -> bytes
    zips,       \* Input store, assembled zips: key -> content
    queue,      \* UpdatesQueue: the jobs it holds, oldest first
    log,        \* history: the jobs UpdatesQueue.add inserted and the
                \* NONE -> PENDING updates that matched a row, in order
    nextId,     \* next ObjectId that new ObjectId() returns
    calls,      \* handler invocations so far; the clock new Date() reads
    su,         \* startUploadVersion handlers: position and locals
    uc,         \* uploadVersionChunk handlers: position and locals
    wk,         \* the workers: position and locals of processUploadVersion
    reply,      \* the reply of the handler invocation that returned last
    lastSU      \* the reply of the StartUpload that returned last

\* State of the catalog and of publishing
VARIABLES
    versions,   \* updates.versions: the Version documents
    files,      \* updates.files: the UpdateFile documents
    output,     \* Output store: the keys of its blobs
    pqueue,     \* the publish jobs on the updates queue
    pw,         \* the workers: position and locals of processPublishVersion
    cv,         \* createVersion handlers: position and locals
    rs,         \* getUpdateFiles handlers: position and locals
    cache,      \* Redis: the manifests kept under their update key
    pv,         \* the processVersion handler: position and locals
    clock,      \* a counter new Date() and uuid v4 are read from
    plog,       \* history: the replies of createVersion, in order
    preply      \* history: the last reply of getUpdateFiles

pvars == <<versions, files, output, pqueue, pw, cv, rs, cache, pv, clock,
           plog, preply>>

uvars == <<provider, uploads, chunks, blobs, zips, queue, log, nextId,
           calls, su, uc, wk, reply, lastSU>>

\* State of the transports and of the storage service
VARIABLES
    gcall,      \* history: the last call of a transport handler, the roles
                \* of its caller and its outcome
    xfer        \* the downloadFolder or uploadFolder call under way: its
                \* position, its locals and the promises of its transfers

gvars == <<gcall, xfer>>

vars == <<uvars, pvars, gvars>>

NoRow == [_id |-> 0, versionId |-> 0, concurrentId |-> 0, state |-> "NONE",
          hash |-> Str(<<>>), chunkSize |-> 0, fileSize |-> 0,
          chunksCount |-> 0, createdAt |-> 0, updatedAt |-> 0]

NoArgs == [id |-> 0, hash |-> Str(<<>>), chunkSize |-> 0, fileSize |-> 0]

NoStart == [ok |-> FALSE, args |-> NoArgs, uploadId |-> 0,
            concurrentId |-> 0, missingRanges |-> <<>>, stored |-> {}]

NoReply == [op |-> "none", ok |-> FALSE]

SUIdle == [pc |-> "idle", args |-> NoArgs, uploadId |-> 0,
           concurrentId |-> 0, currentDate |-> 0, result |-> NoRow,
           prev |-> NoStart]

\* ------------------------------------------------------------- range math
\* getMissingRanges(offsets, chunksCount): the maximal runs of offsets of
\* 0..chunksCount-1 that are not stored, in increasing order.
RECURSIVE SortRanges(_)
SortRanges(S) ==
    IF S = {} THEN <<>>
    ELSE LET first == CHOOSE r \in S : \A q \in S : r[1] <= q[1]
         IN  <<first>> \o SortRanges(S \ {first})

getMissingRanges(offsets, chunksCount) ==
    LET missing == (0..(chunksCount - 1)) \ offsets
        runs == {r \in missing \X missing :
                    /\ r[1] <= r[2]
                    /\ \A o \in r[1]..r[2] : o \in missing
                    /\ (r[1] - 1) \notin missing
                    /\ (r[2] + 1) \notin missing}
    IN  SortRanges(runs)

\* ---------------------------------------------------------- storage paths
\* getInputFolder(uploadId, hash): `${uploadId.toUpperCase()}/${hash.toUpperCase()}/`
getInputFolder(uploadId, hash) == <<toUpperCase(uploadId), toUpperCase(hash)>>
\* getUploadFile(versionId): `${versionId.toUpperCase()}.zip`
getUploadFile(versionId) == toUpperCase(versionId)

UnderFolder(key, dir) == key[1] = dir[1] /\ key[2] = dir[2]
FolderKeys(dir) == {k \in DOMAIN blobs : UnderFolder(k, dir)}

\* deleteFolder(Input, dir) on the chunk files. The local provider removes
\* the directory with rm(directory, {recursive: true}) and throws when it
\* does not exist; aws and gcp list the prefix and delete what they find.
deleteFolderThrows(dir) == provider = "local" /\ FolderKeys(dir) = {}
deleteFolderResult(dir) ==
    [k \in (DOMAIN blobs) \ FolderKeys(dir) |-> blobs[k]]

\* ------------------------------------------------------ startUploadVersion
\* The $cond of the update pipeline: hash and chunkSize equal the stored ones.
SameParams(doc, hash, chunkSize) ==
    doc.hash = hash /\ doc.chunkSize = chunkSize

\* The pipeline of findOneAndUpdate applied to the matched row.
UpdatedUpload(doc, hash, chunkSize, fileSize, concurrentId, currentDate) ==
    [doc EXCEPT
        !.concurrentId = IF SameParams(doc, hash, chunkSize)
                         THEN doc.concurrentId ELSE concurrentId,
        !.state = IF SameParams(doc, hash, chunkSize)
                  THEN doc.state ELSE "NONE",
        !.hash = hash,
        !.fileSize = fileSize,
        !.chunkSize = chunkSize,
        !.chunksCount = Ceil(fileSize, chunkSize),
        !.updatedAt = IF SameParams(doc, hash, chunkSize)
                      THEN doc.updatedAt ELSE currentDate]

\* The row the upsert inserts when the filter matched nothing.
InsertedUpload(id, hash, chunkSize, fileSize, uploadId, concurrentId, currentDate) ==
    [_id |-> uploadId, versionId |-> id, concurrentId |-> concurrentId,
     state |-> "NONE", hash |-> hash, chunkSize |-> chunkSize,
     fileSize |-> fileSize, chunksCount |-> Ceil(fileSize, chunkSize),
     createdAt |-> currentDate, updatedAt |-> currentDate]

\* The reply a StartUpload returns, with the arguments it was called with.
StartReply(h, ok, uploadId, concurrentId, missingRanges) ==
    [op |-> "start", ok |-> ok, args |-> su[h].args,
     uploadId |-> uploadId, concurrentId |-> concurrentId,
     missingRanges |-> missingRanges,
     before |-> su[h].result]

\* What the next StartUpload is compared with: the reply, and the chunk rows
\* of the upload when it was given.
StartBrief(r) ==
    [ok |-> r.ok, args |-> r.args, uploadId |-> r.uploadId,
     concurrentId |-> r.concurrentId, missingRanges |-> r.missingRanges,
     stored |-> {c \in chunks : c.uploadId = r.uploadId}]

\* A handler takes the lowest free slot (the slots are interchangeable).
LowestIdle(slots, h, S) == slots[h].pc = "idle" /\ \A k \in S : k < h => slots[k].pc # "idle"

SUReturn(h, r) ==
    /\ su' = [su EXCEPT ![h] = SUIdle]
    /\ reply' = r
    /\ lastSU' = StartBrief(r)

\* Lines 673-750: new ObjectId() twice, new Date(), and findOneAndUpdate with
\* upsert. A matched row is updated atomically; with no row matched the
\* insert of the upsert follows as a step of its own, since nothing (no
\* unique index on versionId) serialises two upserts that both matched nothing.
startUploadVersion(h, id, hash, chunkSize, fileSize) ==
    /\ LowestIdle(su, h, SUHandlers)
    /\ calls' = calls + 1
    /\ nextId' = nextId + 2
    /\ LET matching == {r \in uploads : r.versionId = id}
           args == [id |-> id, hash |-> hash, chunkSize |-> chunkSize,
                    fileSize |-> fileSize]
           me == [pc |-> "insert", args |-> args,
                  uploadId |-> nextId, concurrentId |-> nextId + 1,
                  currentDate |-> calls + 1, result |-> NoRow,
                  prev |-> IF \A k \in SUHandlers : su[k].pc = "idle"
                           THEN lastSU ELSE NoStart]
       IN  IF matching = {}
           THEN /\ su' = [su EXCEPT ![h] = me]
                /\ UNCHANGED uploads
           ELSE \E doc \in matching :
                /\ uploads' = (uploads \ {doc}) \cup
                      {UpdatedUpload(doc, hash, chunkSize, fileSize,
                                     nextId + 1, calls + 1)}
                /\ su' = [su EXCEPT ![h] =
                      [me EXCEPT !.result = doc,
                                 !.pc = IF doc.hash # hash \/ doc.chunkSize # chunkSize
                                        THEN "deleteMany" ELSE "find"]]
    /\ UNCHANGED <<provider, chunks, blobs, zips, queue, log, uc, wk,
                   reply, lastSU>>
    /\ UNCHANGED pvars

\* The insert of the upsert, and lines 752-763: result == null.
SU_Insert(h) ==
    /\ su[h].pc = "insert"
    /\ LET a == su[h].args IN
       /\ uploads' = uploads \cup
             {InsertedUpload(a.id, a.hash, a.chunkSize, a.fileSize,
                             su[h].uploadId, su[h].concurrentId,
                             su[h].currentDate)}
       /\ SUReturn(h, StartReply(h, TRUE, su[h].uploadId, su[h].concurrentId,
                       <<<<0, Ceil(a.fileSize, a.chunkSize) - 1>>>>))
    /\ UNCHANGED <<provider, chunks, blobs, zips, queue, log, nextId,
                   calls, uc, wk>>
    /\ UNCHANGED <<pvars, gvars>>

\* Line 770: chunksColl.deleteMany({ uploadId: result._id, concurrentId }),
\* concurrentId being the one generated by this call.
DeleteManyFilter(c, uploadId, concurrentId) ==
    c.uploadId = uploadId /\ c.concurrentId = concurrentId

SU_DeleteMany(h) ==
    /\ su[h].pc = "deleteMany"
    /\ chunks' = {c \in chunks :
                    ~DeleteManyFilter(c, su[h].result._id, su[h].concurrentId)}
    /\ su' = [su EXCEPT ![h].pc = "deleteFolder"]
    /\ UNCHANGED <<provider, uploads, blobs, zips, queue, log, nextId,
                   calls, uc, wk, reply, lastSU>>
    /\ UNCHANGED <<pvars, gvars>>

\* Lines 771-774: deleteFolder(Input, `${id.toHexString()}/${hash}/`).
SU_DeleteFolder(h) ==
    /\ su[h].pc = "deleteFolder"
    /\ LET dir == <<toHexString(su[h].args.id), su[h].args.hash>> IN
       IF deleteFolderThrows(dir)
       THEN /\ SUReturn(h, StartReply(h, FALSE, 0, 0, <<>>))
            /\ UNCHANGED blobs
       ELSE /\ blobs' = deleteFolderResult(dir)
            /\ su' = [su EXCEPT ![h].pc = "find"]
            /\ UNCHANGED <<reply, lastSU>>
    /\ UNCHANGED <<provider, uploads, chunks, zips, queue, log, nextId,
                   calls, uc, wk>>
    /\ UNCHANGED <<pvars, gvars>>

\* Lines 777-797: the stored offsets of the upload, and the reply.
SU_Find(h) ==
    /\ su[h].pc = "find"
    /\ LET offsets == {c.offset : c \in {x \in chunks : x.uploadId = su[h].result._id}}
           a == su[h].args
       IN  SUReturn(h, StartReply(h, TRUE, su[h].result._id,
                       su[h].result.concurrentId,
                       getMissingRanges(offsets, Ceil(a.fileSize, a.chunkSize))))
    /\ UNCHANGED <<provider, uploads, chunks, blobs, zips, queue, log,
                   nextId, calls, uc, wk>>
    /\ UNCHANGED <<pvars, gvars>>

\* ------------------------------------------------------- setUploadState
\* uploadsColl.updateOne({_id, concurrentId, state: checkState}, {$set: {state}})
setUploadState(rows, uploadId, concurrentId, state, checkState) ==
    {IF r._id = uploadId /\ r.concurrentId = concurrentId /\ r.state = checkState
     THEN [r EXCEPT !.state = state] ELSE r : r \in rows}

\* ------------------------------------------------------ uploadVersionChunk
UCIdle == [pc |-> "idle",
           args |-> [uploadId |-> 0, concurrentId |-> 0, offset |-> 0,
                     data |-> [len |-> 0, byte |-> "a"]],
           upload |-> NoRow, matched |-> FALSE]

\* Lines 811-865: what makes the handler throw before it writes anything.
FindUpload(uploadId, concurrentId) ==
    {r \in uploads : r._id = uploadId /\ r.concurrentId = concurrentId}

\* offset > chunksCount, the comparison line 841 is compared with
OffsetBeyond(upload, offset) == offset > upload.chunksCount

InvalidOffset(upload, offset) == offset >= upload.chunksCount

InvalidChunkSize(upload, offset, byteLength) ==
    IF offset = upload.chunksCount - 1
    THEN upload.fileSize - upload.chunkSize * (upload.chunksCount - 1) # byteLength
    ELSE upload.chunkSize # byteLength

\* The message of the ResponseError the handler throws, "" when it throws none.
ChunkError(uploadId, concurrentId, offset, data) ==
    IF data.len = 0 THEN "empty data buffer"
    ELSE IF FindUpload(uploadId, concurrentId) = {}
    THEN "invalid upload id or concurrent id"
    ELSE IF \E upload \in FindUpload(uploadId, concurrentId) :
               InvalidOffset(upload, offset)
    THEN "invalid chunk offset"
    ELSE IF \E upload \in FindUpload(uploadId, concurrentId) :
               InvalidChunkSize(upload, offset, data.len)
    THEN "invalid chunk size"
    ELSE ""

ChunkReply(ok, finished, error) ==
    [op |-> "chunk", ok |-> ok, finished |-> finished, error |-> error]

UCReturn(h, finished) ==
    /\ uc' = [uc EXCEPT ![h] = UCIdle]
    /\ reply' = ChunkReply(TRUE, finished, "")

\* Lines 811-865: the empty-buffer check, findOne and the validation.
uploadVersionChunk(h, uploadId, concurrentId, offset, data) ==
    /\ LowestIdle(uc, h, UCHandlers)
    /\ calls' = calls + 1
    /\ LET args == [uploadId |-> uploadId, concurrentId |-> concurrentId,
                    offset |-> offset, data |-> data]
       IN  IF ChunkError(uploadId, concurrentId, offset, data) # ""
           THEN /\ reply' = ChunkReply(FALSE, FALSE,
                                ChunkError(uploadId, concurrentId, offset, data))
                /\ UNCHANGED uc
           ELSE /\ \E upload \in FindUpload(uploadId, concurrentId) :
                      uc' = [uc EXCEPT ![h] =
                               [pc |-> "blob", args |-> args,
                                upload |-> upload, matched |-> FALSE]]
                /\ UNCHANGED reply
    /\ UNCHANGED <<provider, uploads, chunks, blobs, zips, queue, log,
                   nextId, su, wk, lastSU>>
    /\ UNCHANGED <<pvars, gvars>>

\* Lines 867-880: uploadBuffer to `${getInputFolder(...)}${offset}.data`.
ChunkKey(uploadId, hash, offset) ==
    getInputFolder(toHexString(uploadId), hash) \o <<offset>>

\* The blob uploadBuffer writes: the bytes of the request and, as history,
\* the concurrentId of the request that wrote them.
StoredChunk(data, concurrentId) ==
    [len |-> data.len, byte |-> data.byte, epoch |-> concurrentId]

UC_Blob(h) ==
    /\ uc[h].pc = "blob"
    /\ blobs' = (ChunkKey(uc[h].args.uploadId, uc[h].upload.hash,
                          uc[h].args.offset)
                    :> StoredChunk(uc[h].args.data, uc[h].args.concurrentId))
                 @@ blobs
    /\ uc' = [uc EXCEPT ![h].pc = "upsert"]
    /\ UNCHANGED <<provider, uploads, chunks, zips, queue, log, nextId,
                   calls, su, wk, reply, lastSU>>
    /\ UNCHANGED <<pvars, gvars>>

\* The filter of the updateOne of lines 882-900.
ChunkFilter(c, uploadId, concurrentId, offset) ==
    c.uploadId = uploadId /\ c.concurrentId = concurrentId /\ c.offset = offset

\* updateOne with $set in place of $setOnInsert, what lines 882-900 are
\* compared with: the matched row takes the size and date of this call.
ReplaceChunk(rows, uploadId, concurrentId, offset, size, createdAt) ==
    {c \in rows : ~ChunkFilter(c, uploadId, concurrentId, offset)} \cup
        {[uploadId |-> uploadId, concurrentId |-> concurrentId,
          offset |-> offset, size |-> size, createdAt |-> createdAt]}

\* Lines 882-900: updateOne with $setOnInsert and upsert.
UpsertChunk(rows, uploadId, concurrentId, offset, size, createdAt) ==
    IF \E c \in rows : ChunkFilter(c, uploadId, concurrentId, offset)
    THEN rows
    ELSE rows \cup {[uploadId |-> uploadId, concurrentId |-> concurrentId,
                     offset |-> offset, size |-> size, createdAt |-> createdAt]}

UC_Upsert(h) ==
    /\ uc[h].pc = "upsert"
    /\ chunks' = UpsertChunk(chunks, uc[h].args.uploadId, uc[h].args.concurrentId,
                             uc[h].args.offset, uc[h].args.data.len, calls)
    /\ uc' = [uc EXCEPT ![h].pc = "count",
                        ![h].matched =
                            \E c \in chunks :
                               ChunkFilter(c, uc[h].args.uploadId,
                                           uc[h].args.concurrentId,
                                           uc[h].args.offset)]
    /\ UNCHANGED <<provider, uploads, blobs, zips, queue, log, nextId,
                   calls, su, wk, reply, lastSU>>
    /\ UNCHANGED <<pvars, gvars>>

\* Lines 902-907 and 921-923: countDocuments({uploadId, concurrentId}).
CountChunks(uploadId, concurrentId) ==
    Cardinality({c \in chunks : c.uploadId = uploadId /\ c.concurrentId = concurrentId})

UC_Count(h) ==
    /\ uc[h].pc = "count"
    /\ IF uc[h].upload.chunksCount = CountChunks(uc[h].args.uploadId, uc[h].args.concurrentId)
       THEN /\ uc' = [uc EXCEPT ![h].pc = "cas"]
            /\ UNCHANGED reply
       ELSE UCReturn(h, FALSE)
    /\ UNCHANGED <<provider, uploads, chunks, blobs, zips, queue, log,
                   nextId, calls, su, wk, lastSU>>
    /\ UNCHANGED <<pvars, gvars>>

\* ------------------------------------------------------- processUpdateFile
\* jobId = `version-${id}-${uploadId}-${concurrentId}`
JobId(versionId, uploadId, concurrentId) ==
    <<toHexString(versionId), toHexString(uploadId), toHexString(concurrentId)>>

JobsWithId(jobId) == {i \in 1..Len(queue) : queue[i].id = jobId}

RemoveJob(q, jobId) == SelectSeq(q, LAMBDA j : j.id # jobId)

\* UpdatesQueue.add(name, data, {jobId, removeOnComplete: true}): a job id
\* the queue already holds is not added again.
QueueAdd(q, jobId) ==
    IF \E i \in 1..Len(q) : q[i].id = jobId
    THEN q
    ELSE Append(q, [id |-> jobId, status |-> "waiting"])

UCJobId(h) ==
    JobId(uc[h].upload.versionId, uc[h].args.uploadId, uc[h].args.concurrentId)

\* Lines 908-913: setUploadState(uploadId, concurrentId, PENDING, NONE).
UC_Cas(h) ==
    /\ uc[h].pc = "cas"
    /\ uploads' = setUploadState(uploads, uc[h].args.uploadId,
                                 uc[h].args.concurrentId, "PENDING", "NONE")
    /\ log' = IF uploads' # uploads
               THEN Append(log, [ev |-> "cas", id |-> UCJobId(h)]) ELSE log
    /\ uc' = [uc EXCEPT ![h].pc = "getJob"]
    /\ UNCHANGED <<provider, chunks, blobs, zips, queue, nextId,
                   calls, su, wk, reply, lastSU>>
    /\ UNCHANGED <<pvars, gvars>>

\* Lines 441-447: getJob and isFailed.
UC_GetJob(h) ==
    /\ uc[h].pc = "getJob"
    /\ LET found == JobsWithId(UCJobId(h)) IN
       IF found = {}
       THEN /\ uc' = [uc EXCEPT ![h].pc = "add"]
            /\ UNCHANGED reply
       ELSE IF \E i \in found : queue[i].status = "failed"
            THEN /\ uc' = [uc EXCEPT ![h].pc = "remove"]
                 /\ UNCHANGED reply
            ELSE UCReturn(h, TRUE)
    /\ UNCHANGED <<provider, uploads, chunks, blobs, zips, queue, log,
                   nextId, calls, su, wk, lastSU>>
    /\ UNCHANGED <<pvars, gvars>>

\* Line 444: job.remove() of the failed job.
UC_Remove(h) ==
    /\ uc[h].pc = "remove"
    /\ queue' = RemoveJob(queue, UCJobId(h))
    /\ uc' = [uc EXCEPT ![h].pc = "add"]
    /\ UNCHANGED <<provider, uploads, chunks, blobs, zips, log, nextId,
                   calls, su, wk, reply, lastSU>>
    /\ UNCHANGED <<pvars, gvars>>

\* Lines 449-465: UpdatesQueue.add, and the return of uploadVersionChunk.
UC_Add(h) ==
    /\ uc[h].pc = "add"
    /\ queue' = QueueAdd(queue, UCJobId(h))
    /\ log' = IF queue' # queue
               THEN Append(log, [ev |-> "add", id |-> UCJobId(h)]) ELSE log
    /\ UCReturn(h, TRUE)
    /\ UNCHANGED <<provider, uploads, chunks, blobs, zips, nextId, calls, su,
                   wk, lastSU>>
    /\ UNCHANGED <<pvars, gvars>>

\* A client issues at most MaxCalls requests.
SU_Call(h, id, hash, chunkSize, fileSize) ==
    /\ calls < MaxCalls
    /\ startUploadVersion(h, id, hash, chunkSize, fileSize)
    /\ UNCHANGED gvars

UC_Call(h, uploadId, concurrentId, offset, data) ==
    /\ calls < MaxCalls
    /\ uploadVersionChunk(h, uploadId, concurrentId, offset, data)

\* ---------------------------------------------------- processUploadVersion
WKIdle == [pc |-> "idle", job |-> <<>>, upload |-> NoRow, content |-> <<>>]

\* The job ends by returning: removeOnComplete takes it off the queue.
JobCompleted(w) ==
    /\ queue' = RemoveJob(queue, wk[w].job)
    /\ wk' = [wk EXCEPT ![w] = WKIdle]

\* The job ends by throwing: it stays on the queue as failed.
JobFailed(w) ==
    /\ queue' = [i \in 1..Len(queue) |->
                    IF queue[i].id = wk[w].job
                    THEN [queue[i] EXCEPT !.status = "failed"] ELSE queue[i]]
    /\ log' = Append(log, [ev |-> "fail", id |-> wk[w].job])
    /\ wk' = [wk EXCEPT ![w] = WKIdle]

\* The worker takes the oldest waiting job.
W_Lease(w) ==
    /\ wk[w].pc = "idle"
    /\ \E i \in 1..Len(queue) :
        /\ queue[i].status = "waiting"
        /\ \A k \in 1..(i - 1) : queue[k].status # "waiting"
        /\ queue' = [queue EXCEPT ![i].status = "active"]
        /\ wk' = [wk EXCEPT ![w].pc = "find", ![w].job = queue[i].id]
    /\ UNCHANGED <<provider, uploads, chunks, blobs, zips, log, nextId,
                   calls, su, uc, reply, lastSU>>
    /\ UNCHANGED <<pvars, gvars>>

\* Lines 168-174: findOne({_id, concurrentId}) and the versionId check.
W_Find(w) ==
    /\ wk[w].pc = "find"
    /\ LET found == {r \in uploads : /\ toHexString(r._id) = wk[w].job[2]
                                     /\ toHexString(r.concurrentId) = wk[w].job[3]
                                     /\ toHexString(r.versionId) = wk[w].job[1]}
       IN  IF found = {}
           THEN JobCompleted(w)
           ELSE /\ \E upload \in found :
                     wk' = [wk EXCEPT ![w].pc = "casProcessing", ![w].upload = upload]
                /\ UNCHANGED queue
    /\ UNCHANGED <<provider, uploads, chunks, blobs, zips, log, nextId,
                   calls, su, uc, reply, lastSU>>
    /\ UNCHANGED <<pvars, gvars>>

\* Lines 176-181: setUploadState(uploadId, concurrentId, PROCESSING, PENDING).
W_CasProcessing(w) ==
    /\ wk[w].pc = "casProcessing"
    /\ uploads' = setUploadState(uploads, wk[w].upload._id, wk[w].upload.concurrentId,
                                 "PROCESSING", "PENDING")
    /\ wk' = [wk EXCEPT ![w].pc = "download"]
    /\ UNCHANGED <<provider, chunks, blobs, zips, queue, log, nextId,
                   calls, su, uc, reply, lastSU>>
    /\ UNCHANGED <<pvars, gvars>>

\* The orders in which enumerateFiles (readdir) may list a set of files.
Orders(S) ==
    {o \in [1..Cardinality(S) -> S] : \A i, j \in 1..Cardinality(S) : o[i] = o[j] => i = j}

RECURSIVE Concat(_, _)
Concat(store, order) ==
    IF order = <<>> THEN <<>>
    ELSE Content(store[Head(order)]) \o Concat(store, Tail(order))

\* A comparison that lets every file through
NeverMismatch(content, hash) == FALSE

\* Lines 254-257: calculatedHash !== upload.hash
HashMismatch(content, hash) == calculateFileHash(content) # hash

\* Lines 197-257: downloadFolder of the chunk folder (throws on an empty
\* folder, or when the storage backend fails), the concatenation of the
\* files as enumerateFiles lists them, and the comparison of the SHA-256 of
\* the result with upload.hash.
W_Download(w) ==
    /\ wk[w].pc = "download"
    /\ LET filesPrefix == getInputFolder(wk[w].job[2], wk[w].upload.hash)
           keys == FolderKeys(filesPrefix)
       IN  \E storageError \in BOOLEAN :
             IF keys = {} \/ storageError
             THEN JobFailed(w)
             ELSE \E order \in Orders(keys) :
                    LET content == Concat(blobs, order) IN
                    IF HashMismatch(content, wk[w].upload.hash)
                    THEN /\ JobCompleted(w)
                         /\ UNCHANGED log
                    ELSE /\ wk' = [wk EXCEPT ![w].pc = "uploadFile",
                                             ![w].content = content]
                         /\ UNCHANGED <<queue, log>>
    /\ UNCHANGED <<provider, uploads, chunks, blobs, zips, nextId,
                   calls, su, uc, reply, lastSU>>
    /\ UNCHANGED <<pvars, gvars>>

\* Lines 259-273: uploadFile(Input, update.zip, getUploadFile(versionId)).
W_UploadFile(w) ==
    /\ wk[w].pc = "uploadFile"
    /\ zips' = (getUploadFile(wk[w].job[1]) :> wk[w].content) @@ zips
    /\ wk' = [wk EXCEPT ![w].pc = "casReady"]
    /\ UNCHANGED <<provider, uploads, chunks, blobs, queue, log, nextId,
                   calls, su, uc, reply, lastSU>>
    /\ UNCHANGED <<pvars, gvars>>

\* Lines 274-279: setUploadState(uploadId, concurrentId, READY, PROCESSING).
W_CasReady(w) ==
    /\ wk[w].pc = "casReady"
    /\ uploads' = setUploadState(uploads, wk[w].upload._id, wk[w].upload.concurrentId,
                                 "READY", "PROCESSING")
    /\ wk' = [wk EXCEPT ![w].pc = "deleteFolder"]
    /\ UNCHANGED <<provider, chunks, blobs, zips, queue, log, nextId,
                   calls, su, uc, reply, lastSU>>
    /\ UNCHANGED <<pvars, gvars>>

\* Line 280: deleteFolder(Input, filesPrefix).
W_DeleteFolder(w) ==
    /\ wk[w].pc = "deleteFolder"
    /\ LET filesPrefix == getInputFolder(wk[w].job[2], wk[w].upload.hash) IN
       IF deleteFolderThrows(filesPrefix)
       THEN /\ JobFailed(w)
            /\ UNCHANGED blobs
       ELSE /\ blobs' = deleteFolderResult(filesPrefix)
            /\ wk' = [wk EXCEPT ![w].pc = "deleteChunks"]
            /\ UNCHANGED <<queue, log>>
    /\ UNCHANGED <<provider, uploads, chunks, zips, nextId, calls,
                   su, uc, reply, lastSU>>
    /\ UNCHANGED <<pvars, gvars>>

\* deleteUploadChunks(uploadId): chunksColl.deleteMany({uploadId})
deleteUploadChunks(rows, uploadId) == {c \in rows : c.uploadId # uploadId}

\* Line 281, and the return of the job.
W_DeleteChunks(w) ==
    /\ wk[w].pc = "deleteChunks"
    /\ chunks' = deleteUploadChunks(chunks, wk[w].upload._id)
    /\ JobCompleted(w)
    /\ UNCHANGED <<provider, uploads, blobs, zips, log, nextId, calls,
                   su, uc, reply, lastSU>>
    /\ UNCHANGED <<pvars, gvars>>

\* ------------------------------------------------------------ createVersion
\* $sort on (version.major, version.minor, version.revision), descending
TupleLess(a, b) ==
    \/ a.major < b.major
    \/ a.major = b.major /\ a.minor < b.minor
    \/ a.major = b.major /\ a.minor = b.minor /\ a.revision < b.revision

\* A pipeline that sorts in ascending order
LeastVersion(rows) ==
    IF rows = {}
    THEN [major |-> 0, minor |-> 0, revision |-> 0]
    ELSE (CHOOSE v \in rows :
            \A u \in rows : ~TupleLess(u.version, v.version)).version

\* Lines 59-116: the version of the document the pipeline goes on with: the
\* first of the sorted collection, or 0.0.0 for an empty collection.
CurrentVersion(rows) ==
    IF rows = {}
    THEN [major |-> 0, minor |-> 0, revision |-> 0]
    ELSE (CHOOSE v \in rows :
            \A u \in rows : ~TupleLess(v.version, u.version)).version

\* An increment that also resets the slots below the one selected
IncrementAndReset(version, type) ==
    IF type = "MAJOR"
    THEN [major |-> version.major + 1, minor |-> 0, revision |-> 0]
    ELSE IF type = "MINOR"
         THEN [version EXCEPT !.minor = @ + 1, !.revision = 0]
         ELSE [version EXCEPT !.revision = @ + 1]

\* Lines 52-57 and 120-122: $sum of the field selected by type and 1.
IncrementVersion(version, type) ==
    IF type = "MAJOR"
    THEN [version EXCEPT !.major = @ + 1]
    ELSE IF type = "MINOR"
         THEN [version EXCEPT !.minor = @ + 1]
         ELSE [version EXCEPT !.revision = @ + 1]

CVIdle == [pc |-> "idle", type |-> "MAJOR", doc |-> <<>>, seen |-> {}]

\* The createVersion requests made so far
Created == Len(plog) + Cardinality({h \in CVHandlers : cv[h].pc # "idle"})

\* Lines 50-128: new ObjectId(), new Date(), and the stages of the pipeline
\* that read the collection and build the new document. seen keeps the
\* collection the pipeline read.
createVersion(h, type, description) ==
    /\ LowestIdle(cv, h, CVHandlers)
    /\ Created < MaxCreates
    /\ clock' = clock + 1
    /\ LET doc == [_id |-> 100 + Created,
                   version |-> IncrementVersion(CurrentVersion(versions), type),
                   description |-> description,
                   state |-> "PENDING",
                   createdAt |-> clock',
                   updatedAt |-> clock']
       IN  cv' = [cv EXCEPT ![h] = [pc |-> "merge", type |-> type,
                                    doc |-> doc, seen |-> versions]]
    /\ UNCHANGED <<versions, files, output, pqueue, pw, rs, cache, pv, plog,
                   preply>>
    /\ UNCHANGED uvars

CV_Call(h, type, description) ==
    createVersion(h, type, description) /\ UNCHANGED gvars

\* Lines 129-152: $merge inserts the document (no document has its _id), and
\* findOne reads it back for the reply.
CV_Merge(h) ==
    /\ cv[h].pc = "merge"
    /\ versions' = versions \cup {cv[h].doc}
    /\ plog' = Append(plog, [h |-> h, type |-> cv[h].type,
                             id |-> cv[h].doc._id,
                             version |-> cv[h].doc.version])
    /\ cv' = [cv EXCEPT ![h] = CVIdle]
    /\ UNCHANGED <<files, output, pqueue, pw, rs, cache, pv, clock, preply>>
    /\ UNCHANGED <<uvars, gvars>>

\* Lines 163-189: editVersion sets the description and updatedAt.
editVersion(versionId, description) ==
    /\ versions' = {IF v._id = versionId
                    THEN [v EXCEPT !.description = description,
                                   !.updatedAt = clock]
                    ELSE v : v \in versions}
    /\ UNCHANGED <<files, output, pqueue, pw, cv, rs, cache, pv, clock, plog,
                   preply>>
    /\ UNCHANGED uvars

EditVersion(versionId, description) ==
    editVersion(versionId, description) /\ UNCHANGED gvars

\* Lines 277-332: getVersion returns the document with the number of its
\* UpdateFile documents, 0 when it has none.
getVersion(versionId) ==
    LET version == CHOOSE v \in versions : v._id = versionId
        filesCount == Cardinality({f \in files : f.versionId = versionId})
    IN  [_id |-> version._id, version |-> version.version,
         state |-> version.state, filesCount |-> filesCount]

\* ----------------------------------------------------------- processVersion
PVIdle == [pc |-> "idle", id |-> 0, count |-> 0]

\* `version-${id}`
PublishJobId(id) == <<toHexString(id)>>

\* new ObjectId(hex): the id a hex string of either case stands for
ObjectId(hex) == hex.text

PJobsWithId(jobId) == {i \in 1..Len(pqueue) : pqueue[i].id = jobId}

\* UpdatesQueue.add of a publish job; owner is the worker holding its lock
\* and stalls the number of times the lock was lost.
PQueueAdd(q, jobId) ==
    IF \E i \in 1..Len(q) : q[i].id = jobId
    THEN q
    ELSE Append(q, [id |-> jobId, status |-> "waiting", owner |-> 0,
                    stalls |-> 0])

\* Lines 468-476: getJob and isFailed.
processVersion(id) ==
    /\ pv.pc = "idle"
    /\ clock' = clock + 1
    /\ LET found == PJobsWithId(PublishJobId(id))
           next == IF found = {} THEN "add"
                   ELSE IF \E i \in found : pqueue[i].status = "failed"
                        THEN "remove" ELSE "idle"
       IN  pv' = [pc |-> next, id |-> id, count |-> pv.count + 1]
    /\ UNCHANGED <<versions, files, output, pqueue, pw, cv, rs, cache, plog,
                   preply>>
    /\ UNCHANGED uvars

PV_Call(id) ==
    pv.count < MaxJobs /\ processVersion(id) /\ UNCHANGED gvars

\* Line 473: job.remove() of the failed job.
PV_Remove ==
    /\ pv.pc = "remove"
    /\ pqueue' = RemoveJob(pqueue, PublishJobId(pv.id))
    /\ pv' = [pv EXCEPT !.pc = "add"]
    /\ UNCHANGED <<versions, files, output, pw, cv, rs, cache, clock, plog,
                   preply>>
    /\ UNCHANGED <<uvars, gvars>>

\* Lines 478-492: UpdatesQueue.add, and the return of processVersion.
PV_Add ==
    /\ pv.pc = "add"
    /\ pqueue' = PQueueAdd(pqueue, PublishJobId(pv.id))
    /\ pv' = [pv EXCEPT !.pc = "idle"]
    /\ UNCHANGED <<versions, files, output, pw, cv, rs, cache, clock, plog,
                   preply>>
    /\ UNCHANGED <<uvars, gvars>>

\* The upload pipeline stores the assembled file of a version under
\* getUploadFile(versionId) in the Input store.
ZipStored(id, content) ==
    /\ LET key == getUploadFile(toHexString(id)) IN
       /\ (IF key \in DOMAIN zips THEN zips[key] ELSE <<>>) # content
       /\ zips' = (key :> content) @@ zips
    /\ UNCHANGED <<provider, uploads, chunks, blobs, queue, log, nextId,
                   calls, su, uc, wk, reply, lastSU>>
    /\ UNCHANGED <<pvars, gvars>>

\* ---------------------------------------------------- processPublishVersion
\* The files of the archives uploaded: the bytes aaaa are a zip of three
\* files; any other content is not a zip, and unzipFile, which logs the error
\* and goes on, extracts nothing from it.
ArchiveFiles ==
    {[folder |-> "general", name |-> "a.png", data |-> "x"],
     [folder |-> "windows", name |-> "w.dll", data |-> "y"],
     [folder |-> "docs", name |-> "readme", data |-> "z"]}

\* The bytes cccc are a zip of three files: a general one, a BC7 texture
\* and a Windows library.
ScenarioFiles ==
    {[folder |-> "general", name |-> "a.png", data |-> "u"],
     [folder |-> "bc7", name |-> "b.ktx", data |-> "v"],
     [folder |-> "windows", name |-> "w.dll", data |-> "y"]}

\* The bytes dddd are a zip of two files: a general one, and a Windows
\* library kept under the desktop folder.
NestedFiles ==
    {[folder |-> "general", name |-> "a.png", data |-> "x"],
     [folder |-> "desktop/windows", name |-> "w.dll", data |-> "y"]}

unzipFile(content) ==
    IF content = Rep("a", 4) THEN ArchiveFiles
    ELSE IF content = Rep("c", 4) THEN ScenarioFiles
    ELSE IF content = Rep("d", 4) THEN NestedFiles
    ELSE {}

incomingFolders ==
    <<"general", "desktop", "mobile", "uncompressed", "bc3", "bc7", "etc2",
      "astc", "windows", "linux", "macos", "android", "ios">>

\* UpdatesCategories, in the order of incomingFolders
UpdateTypeLookup == <<0, 1, 2, 10, 11, 12, 13, 14, 20, 21, 22, 23, 24>>

\* The folders whose regexes match the path of a file in folder: the folder
\* itself, and for the Windows folder under the desktop folder both.
RegexFolders(folder) ==
    IF folder = "desktop/windows" THEN {"desktop", "windows"} ELSE {folder}

\* matchRegexes(file.path, incomingFoldersRegexes[n]): the regexes of
\* category n anchor at its folder at the root of the archive.
matchRegexes(file, n) == incomingFolders[n] \in RegexFolders(file.folder)

\* file.path, relative to the directory enumerated
FilePath(file) == Str(<<file.folder, "/", file.name>>)

\* CRC-32 of the contents, in hex
Crc32(file) == file.data

\* Lines 370-384: every (category, file) whose path matches.
ListFiles(tree) ==
    {[n |-> n, file |-> f] : n \in 1..Len(incomingFolders), f \in tree}
        \cap {e \in [n : 1..Len(incomingFolders), file : tree] :
                matchRegexes(e.file, e.n)}

\* Lines 391-432 and 455-471: the UpdateFile document of a listed file, named
\* (uuid v4 + '_' + crc32).toUpperCase().
UpdateFileOf(versionId, e, stamp) ==
    [versionId |-> ObjectId(versionId),
     category |-> UpdateTypeLookup[e.n],
     fileName |-> toUpperCase(Str(<<ToString(<<stamp, e.n, e.file.name>>),
                                    "_", Crc32(e.file)>>)),
     extension |-> ".eupdz",
     localPath |-> FilePath(e.file),
     crc32 |-> Crc32(e.file),
     createdAt |-> stamp]

\* Lines 436-445: uploadFolder(Output, decompressPath, uploadPath) uploads the
\* files of the decompressed archive under their relative paths.
UploadedTree(tree) ==
    {[name |-> FilePath(f), extension |-> ""] : f \in tree}

\* uploadPath: `publish/${versionId.toUpperCase()}/`
PublishPrefix(versionId) == toUpperCase(versionId)

\* An update that does not compare the state
setVersionStateUnchecked(rows, versionId, state, checkState) ==
    {IF toHexString(v._id) = versionId
     THEN [v EXCEPT !.state = state] ELSE v : v \in rows}

\* setVersionState(versionId, state, checkState): updateOne on
\* {_id, state: checkState}.
setVersionState(rows, versionId, state, checkState) ==
    {IF toHexString(v._id) = versionId /\ v.state = checkState
     THEN [v EXCEPT !.state = state] ELSE v : v \in rows}

\* An insert that stops after the first document
InsertFirst(rows, docs) ==
    IF docs = {} THEN rows ELSE rows \cup {CHOOSE d \in docs : TRUE}

\* Lines 476-481: filesColl.insertMany(files, {session})
insertMany(rows, docs) == rows \cup docs

\* An abort that keeps what the transaction inserted
KeepInserted(rows, docs) == rows \cup docs

\* Lines 491-493: session.abortTransaction() undoes the insertMany
abortTransaction(rows, docs) == rows

PWIdle == [pc |-> "idle", job |-> <<>>, tree |-> {}, rows |-> {}]

\* The queue entry of the job worker w runs, while w holds its lock
HoldsLock(w, j) == j.id = pw[w].job /\ j.status = "active" /\ j.owner = w

\* The job returns: removeOnComplete takes it off the queue.
PJobCompleted(w) ==
    /\ pqueue' = SelectSeq(pqueue, LAMBDA j : ~HoldsLock(w, j))
    /\ pw' = [pw EXCEPT ![w] = PWIdle]

\* The job throws: it stays on the queue as failed.
PJobFailed(w) ==
    /\ pqueue' = [i \in 1..Len(pqueue) |->
                    IF HoldsLock(w, pqueue[i])
                    THEN [pqueue[i] EXCEPT !.status = "failed"]
                    ELSE pqueue[i]]
    /\ pw' = [pw EXCEPT ![w] = PWIdle]

\* The worker takes the oldest waiting job.
P_Lease(w) ==
    /\ pw[w].pc = "idle"
    /\ \E i \in 1..Len(pqueue) :
        /\ pqueue[i].status = "waiting"
        /\ \A k \in 1..(i - 1) : pqueue[k].status # "waiting"
        /\ pqueue' = [pqueue EXCEPT ![i].status = "active", ![i].owner = w]
        /\ pw' = [pw EXCEPT ![w].pc = "find", ![w].job = pqueue[i].id]
    /\ UNCHANGED <<versions, files, output, cv, rs, cache, pv, clock, plog,
                   preply>>
    /\ UNCHANGED <<uvars, gvars>>

\* A job that returns unless the version is PENDING
P_FindOnlyPending(w) ==
    /\ pw[w].pc = "find"
    /\ LET found == {v \in versions : toHexString(v._id) = pw[w].job[1]} IN
       IF found = {} \/ \E v \in found : v.state # "PENDING"
       THEN PJobCompleted(w)
       ELSE /\ pw' = [pw EXCEPT ![w].pc = "casProcessing"]
            /\ UNCHANGED pqueue
    /\ UNCHANGED <<versions, files, output, cv, rs, cache, pv, clock, plog,
                   preply>>
    /\ UNCHANGED <<uvars, gvars>>

\* Lines 320-325: findOne({_id}); the job returns when there is no such
\* version or when it is READY.
P_Find(w) ==
    /\ pw[w].pc = "find"
    /\ LET found == {v \in versions : toHexString(v._id) = pw[w].job[1]} IN
       IF found = {} \/ \E v \in found : v.state = "READY"
       THEN PJobCompleted(w)
       ELSE /\ pw' = [pw EXCEPT ![w].pc = "casProcessing"]
            /\ UNCHANGED pqueue
    /\ UNCHANGED <<versions, files, output, cv, rs, cache, pv, clock, plog,
                   preply>>
    /\ UNCHANGED <<uvars, gvars>>

\* Lines 327-331: setVersionState(versionId, PROCESSING, PENDING).
P_CasProcessing(w) ==
    /\ pw[w].pc = "casProcessing"
    /\ versions' = setVersionState(versions, pw[w].job[1], "PROCESSING",
                                   "PENDING")
    /\ pw' = [pw EXCEPT ![w].pc = "download"]
    /\ UNCHANGED <<files, output, pqueue, cv, rs, cache, pv, clock, plog,
                   preply>>
    /\ UNCHANGED <<uvars, gvars>>

\* Lines 343-432: downloadFile of the zip (throws when the blob is missing or
\* the storage backend fails), unzipFile, the listing by category (throws
\* when no file matches) and the packing of the files listed.
P_Download(w) ==
    /\ pw[w].pc = "download"
    /\ clock' = clock + 1
    /\ LET key == getUploadFile(pw[w].job[1]) IN
       \E storageError \in BOOLEAN :
         IF key \notin DOMAIN zips \/ storageError
         THEN PJobFailed(w)
         ELSE LET tree == unzipFile(zips[key])
                  filesList == ListFiles(tree)
              IN  IF filesList = {}
                  THEN PJobFailed(w)
                  ELSE /\ pw' = [pw EXCEPT
                                   ![w].pc = "uploadFolder",
                                   ![w].tree = tree,
                                   ![w].rows =
                                      {UpdateFileOf(pw[w].job[1], e, clock')
                                         : e \in filesList}]
                       /\ UNCHANGED pqueue
    /\ UNCHANGED <<versions, files, output, cv, rs, cache, pv, plog, preply>>
    /\ UNCHANGED <<uvars, gvars>>

\* Lines 436-445: uploadFolder to the Output store.
P_UploadFolder(w) ==
    /\ pw[w].pc = "uploadFolder"
    /\ \E storageError \in BOOLEAN :
         IF storageError
         THEN /\ PJobFailed(w)
              /\ UNCHANGED output
         ELSE /\ output' = output \cup
                    {[prefix |-> PublishPrefix(pw[w].job[1]),
                      name |-> k.name, extension |-> k.extension]
                       : k \in UploadedTree(pw[w].tree)}
              /\ pw' = [pw EXCEPT ![w].pc = "transaction"]
              /\ UNCHANGED pqueue
    /\ UNCHANGED <<versions, files, cv, rs, cache, pv, clock, plog, preply>>
    /\ UNCHANGED <<uvars, gvars>>

\* Lines 473-500: the transaction of insertMany and
\* setVersionState(versionId, READY, PROCESSING): it commits, or it aborts
\* on an error and the job throws.
P_Transaction(w) ==
    /\ pw[w].pc = "transaction"
    /\ \E error \in BOOLEAN :
         IF error
         THEN /\ PJobFailed(w)
              /\ files' = abortTransaction(files, pw[w].rows)
              /\ UNCHANGED versions
         ELSE /\ files' = insertMany(files, pw[w].rows)
              /\ versions' = setVersionState(versions, pw[w].job[1], "READY",
                                             "PROCESSING")
              /\ PJobCompleted(w)
    /\ UNCHANGED <<output, cv, rs, cache, pv, clock, plog, preply>>
    /\ UNCHANGED <<uvars, gvars>>

\* The lock of the job worker w runs expires (the worker did not renew it
\* in time): the queue makes the job wait again, while w goes on running it.
P_Stalled(w) ==
    /\ pw[w].pc \notin {"idle", "find"}
    /\ \E i \in 1..Len(pqueue) :
        /\ HoldsLock(w, pqueue[i])
        /\ pqueue[i].stalls < MaxStalled
        /\ pqueue' = [pqueue EXCEPT ![i].status = "waiting", ![i].owner = 0,
                                    ![i].stalls = @ + 1]
    /\ UNCHANGED <<versions, files, output, pw, cv, rs, cache, pv, clock,
                   plog, preply>>
    /\ UNCHANGED <<uvars, gvars>>

\* ------------------------------------------------------------ getUpdateFiles
PlatformLookup == <<1, 1, 1, 2, 2, 2>>
OperatingSystemLookup == <<20, 21, 22, 0, 23, 24>>
TextureLookup == <<10, 11, 12, 13, 14>>

\* client keeps the version the caller asked with.
RSIdle ==
    [pc |-> "idle", client |-> <<0, 0, 0>>, os |-> 0, texture |-> 0,
     versions |-> {}]
NoManifest == [version |-> <<>>, files |-> {}]

\* The first and the last of the versions sorted by createdAt
FirstCreated(rows) == CHOOSE v \in rows : \A u \in rows : v.createdAt <= u.createdAt
LastCreated(rows) == CHOOSE v \in rows : \A u \in rows : u.createdAt <= v.createdAt

\* `${major}.${minor}.${revision}`
VersionString(v) ==
    Str(<<ToString(v.major), ".", ToString(v.minor), ".",
          ToString(v.revision)>>)

\* formatUpdateKey: `update-${source}-${target}-${os}-${texture}`
formatUpdateKey(source, target, os, texture) ==
    Str(<<"update", "-">> \o source.text \o <<"-">> \o target.text
          \o <<"-", ToString(os), "-", ToString(texture)>>)

\* Lines 556-563: the key of the first and the last version found.
UpdateKey(r) ==
    formatUpdateKey(VersionString(FirstCreated(r.versions).version),
                    VersionString(LastCreated(r.versions).version),
                    r.os, r.texture)

\* A query that leaves the state of the versions out
AnyStateAbove(rows, major, minor, revision) ==
    {v \in rows :
        \/ v.version.major > major
        \/ v.version.major = major /\ v.version.minor > minor
        \/ /\ v.version.major = major
           /\ v.version.minor = minor
           /\ v.version.revision > revision}

\* Lines 520-547: find({$and: [{state: READY}, {$or: [...]}]}).
ReadyAbove(rows, major, minor, revision) ==
    {v \in rows :
        /\ v.state = "READY"
        /\ \/ v.version.major > major
           \/ v.version.major = major /\ v.version.minor > minor
           \/ /\ v.version.major = major
              /\ v.version.minor = minor
              /\ v.version.revision > revision}

\* Lines 520-554: the READY versions above the client's, and the reply
\* when there is none.
RS_Call(major, minor, revision, os, texture) ==
    /\ rs.pc = "idle"
    /\ LET client == [major |-> major, minor |-> minor, revision |-> revision]
           found == ReadyAbove(versions, major, minor, revision)
       IN  IF found = {}
           THEN /\ preply' = [version |-> VersionString(client),
                              files |-> {}]
                /\ UNCHANGED rs
           ELSE /\ rs' = [pc |-> "redis",
                          client |-> <<major, minor, revision>>,
                          os |-> os, texture |-> texture, versions |-> found]
                /\ UNCHANGED preply
    /\ UNCHANGED <<versions, files, output, pqueue, pw, cv, cache, pv, clock,
                   plog>>
    /\ UNCHANGED <<uvars, gvars>>

\* Lines 556-566: redis.get of the update key.
RS_Redis ==
    /\ rs.pc = "redis"
    /\ IF UpdateKey(rs) \in DOMAIN cache
       THEN /\ preply' = cache[UpdateKey(rs)]
            /\ rs' = RSIdle
       ELSE /\ rs' = [rs EXCEPT !.pc = "files"]
            /\ UNCHANGED preply
    /\ UNCHANGED <<versions, files, output, pqueue, pw, cv, cache, pv, clock,
                   plog>>
    /\ UNCHANGED <<uvars, gvars>>

\* A query that leaves the category of the files out
AnyCategory(os, texture) ==
    {UpdateTypeLookup[n] : n \in 1..Len(UpdateTypeLookup)}

\* Lines 590-611: the categories of the $or, for (os, texture)
RelevantCategories(os, texture) ==
    {0, PlatformLookup[os + 1], OperatingSystemLookup[os + 1],
     TextureLookup[texture + 1]}

\* Lines 582-614: the UpdateFile documents of the versions in the categories
\* of the caller.
FoundFiles(r) ==
    {f \in files :
        /\ \E v \in r.versions : v._id = f.versionId
        /\ f.category \in RelevantCategories(r.os, r.texture)}

VersionOf(r, f) == CHOOSE v \in r.versions : v._id = f.versionId

\* The orders in which the cursor can stream a set of documents, up to the
\* interleaving of documents of different local paths, which the loop
\* treats independently of each other.
RECURSIVE CursorOrders(_)
CursorOrders(S) ==
    IF S = {}
    THEN {<<>>}
    ELSE LET p == (CHOOSE f \in S : TRUE).localPath
             same == {f \in S : f.localPath = p}
         IN  {a \o b : a \in Orders(same), b \in CursorOrders(S \ same)}

\* A loop that keeps the first document streamed for a local path
KeepFirst(r, map, file) ==
    IF file.localPath \in DOMAIN map
    THEN map
    ELSE (file.localPath :> [version |-> VersionOf(r, file), file |-> file])
            @@ map

\* Lines 617-627: one turn of the loop over the cursor.
SetFile(r, map, file) ==
    LET version == VersionOf(r, file)
        fileData == IF file.localPath \in DOMAIN map
                    THEN map[file.localPath]
                    ELSE [version |-> version, file |-> file]
    IN  IF file.localPath \notin DOMAIN map
        THEN (file.localPath :> [version |-> version, file |-> file]) @@ map
        ELSE IF fileData.version.createdAt < version.createdAt
             THEN [map EXCEPT ![file.localPath] =
                                 [version |-> version, file |-> file]]
             ELSE map

\* Lines 581 and 616-628: filesMap after the loop over the cursor.
RECURSIVE filesMap(_, _)
filesMap(r, cursor) ==
    IF cursor = <<>>
    THEN <<>>
    ELSE SetFile(r, filesMap(r, SubSeq(cursor, 1, Len(cursor) - 1)),
                 cursor[Len(cursor)])

\* Per localPath a file of the version created last among the files found
Newest(r, kept) ==
    /\ kept \subseteq FoundFiles(r)
    /\ \A f \in FoundFiles(r) :
          \E k \in kept :
             /\ k.localPath = f.localPath
             /\ VersionOf(r, f).createdAt <= VersionOf(r, k).createdAt
    /\ \A k1, k2 \in kept : k1.localPath = k2.localPath => k1 = k2

\* Lines 630-641: the manifest.
Manifest(r, kept) ==
    [version |-> VersionString(LastCreated(r.versions).version),
     files |-> {[UrlPath |-> toUpperCase(toHexString(VersionOf(r, f)._id)),
                 LocalPath |-> f.localPath,
                 Filename |-> f.fileName,
                 Extension |-> f.extension,
                 CRC32 |-> f.crc32] : f \in kept}]

\* Lines 578-649: the file query, the manifest, and redis.setex.
RS_Files ==
    /\ rs.pc = "files"
    /\ \E cursor \in CursorOrders(FoundFiles(rs)) :
         LET map == filesMap(rs, cursor)
             kept == {map[p].file : p \in DOMAIN map}
         IN  /\ preply' = Manifest(rs, kept)
             /\ cache' = (UpdateKey(rs) :> Manifest(rs, kept)) @@ cache
    /\ rs' = RSIdle
    /\ UNCHANGED <<versions, files, output, pqueue, pw, cv, pv, clock, plog>>
    /\ UNCHANGED <<uvars, gvars>>

\* Line 643: setex stores the manifest for updateCacheDuration seconds, after
\* which Redis drops the key.
RS_Expire(key) ==
    /\ key \in DOMAIN cache
    /\ cache' = [k \in DOMAIN cache \ {key} |-> cache[k]]
    /\ UNCHANGED <<versions, files, output, pqueue, pw, cv, rs, preply, pv,
                   clock, plog>>
    /\ UNCHANGED <<uvars, gvars>>

\* ---------------------------------------------------------------- transports
\* The roles of the project; "0" is a role of another application.
Roles == {"update:view", "update:edit", "0"}

\* The authorization of a call: no token, a token the introspection
\* endpoint was not reached for, a token it refuses, and a token it
\* describes, with the roles it lists.
Tokens ==
    {[kind |-> k, roles |-> {}] : k \in {"missing", "unavailable", "refused"}}
        \cup {[kind |-> "introspected", roles |-> S] : S \in SUBSET Roles}

NoCall == [op |-> "", kind |-> "", roles |-> {}, outcome |-> ""]

\* retrieveAuthMetadata(call): the introspection response and no error, or
\* no response and the error.
retrieveAuthMetadata(token) ==
    IF token.kind = "missing"
    THEN [auth |-> {}, error |-> "UNAUTHENTICATED"]
    ELSE IF token.kind = "unavailable"
         THEN [auth |-> {}, error |-> "UNAVAILABLE"]
         ELSE IF token.kind = "refused"
              THEN [auth |-> {}, error |-> "PERMISSION_DENIED"]
              ELSE [auth |-> token.roles, error |-> "null"]

\* validateRoles(roles)(auth) with the zitadel provider: auth is the set
\* of keys of the roles claim, empty when the claim is missing.
validateRoles(roles, auth) ==
    IF Len(roles) = 0
    THEN "null"
    ELSE IF \E i \in 1..Len(roles) : roles[i] \notin auth
         THEN "PERMISSION_DENIED"
         ELSE "null"

\* The roles ViewRoleValidator and EditRoleValidator are made with
ViewRoles == <<"update:view">>
EditRoles == <<"update:edit">>

\* The first lines of every handler of updateServiceServer: the error the
\* call is answered with, or "null" when the handler goes on. The second
\* test is on error, as the first.
GrpcAuthorize(token, roles) ==
    LET r == retrieveAuthMetadata(token)
        error == r.error
    IN  IF error # "null"
        THEN error
        ELSE LET roles_error == validateRoles(roles, r.auth)
             IN  IF error # "null" THEN roles_error ELSE "null"

\* requireAuth, the middleware of the manager router
requireAuth(token) ==
    IF token.kind = "missing"
    THEN [auth |-> {}, error |-> "credentials_required"]
    ELSE IF token.kind = "unavailable"
         THEN [auth |-> {}, error |-> "service_unavailable"]
         ELSE IF token.kind = "refused"
              THEN [auth |-> {}, error |-> "permission_denied"]
              ELSE [auth |-> token.roles, error |-> "null"]

\* requireRoles(roles) with the zitadel provider: for (const role in roles)
\* runs over the indices of the array, as strings.
requireRoles(roles, auth) ==
    IF Len(roles) = 0
    THEN "null"
    ELSE IF \E role \in 0..(Len(roles) - 1) : ToString(role) \notin auth
         THEN "permission_denied"
         ELSE "null"

\* The middlewares of a route of the manager router
RestAuthorize(token, roles) ==
    LET r == requireAuth(token)
    IN  IF r.error # "null" THEN r.error ELSE requireRoles(roles, r.auth)

\* The call of token to op, and how it ended
Called(op, token, outcome) ==
    /\ gcall' = [op |-> op, kind |-> token.kind, roles |-> token.roles,
                 outcome |-> outcome]
    /\ UNCHANGED xfer

Refused(op, token, error) ==
    /\ Called(op, token, error)
    /\ UNCHANGED <<uvars, pvars>>

\* updateServiceServer.CreateVersion
G_CreateVersion(token, type) ==
    LET error == GrpcAuthorize(token, EditRoles)
    IN  IF error # "null"
        THEN Refused("CreateVersion", token, error)
        ELSE /\ Created < MaxVersions
             /\ createVersion(1, type, "v1")
             /\ Called("CreateVersion", token, "executed")

\* updateServiceServer.EditVersion
G_EditVersion(token, versionId, description) ==
    LET error == GrpcAuthorize(token, EditRoles)
    IN  IF error # "null"
        THEN Refused("EditVersion", token, error)
        ELSE /\ editVersion(versionId, description)
             /\ Called("EditVersion", token, "executed")

\* updateServiceServer.FetchVersion
G_FetchVersion(token, versionId) ==
    LET error == GrpcAuthorize(token, ViewRoles)
    IN  IF error # "null"
        THEN Refused("FetchVersion", token, error)
        ELSE /\ getVersion(versionId).state \in VersionStates
             /\ Called("FetchVersion", token, "executed")
             /\ UNCHANGED <<uvars, pvars>>

\* updateServiceServer.ProcessVersion
G_ProcessVersion(token, id) ==
    LET error == GrpcAuthorize(token, EditRoles)
    IN  IF error # "null"
        THEN Refused("ProcessVersion", token, error)
        ELSE /\ pv.count < MaxJobs
             /\ processVersion(id)
             /\ Called("ProcessVersion", token, "executed")

\* ZStartUploadVersionRequest: chunkSize is multipleOf(2), min(16 * 1024),
\* max(512 * 1024); fileSize is min(1 * 1024), max(5 * 1024 * 1024 * 1024).
ZStartUploadVersionRequest(chunkSize, fileSize) ==
    /\ chunkSize % 2 = 0
    /\ chunkSize >= 16 * 1024
    /\ chunkSize <= 512 * 1024
    /\ fileSize >= 1 * 1024
    /\ fileSize \div 1024 < 5 * 1024 * 1024
          \/ (fileSize \div 1024 = 5 * 1024 * 1024 /\ fileSize % 1024 = 0)

\* updateServiceServer.StartUploadVersion
G_StartUploadVersion(token, versionId, hash, chunkSize, fileSize) ==
    LET error == GrpcAuthorize(token, EditRoles)
    IN  IF error # "null"
        THEN Refused("StartUploadVersion", token, error)
        ELSE IF ~ZStartUploadVersionRequest(chunkSize, fileSize)
             THEN Refused("StartUploadVersion", token, "INVALID_ARGUMENT")
             ELSE /\ calls < MaxStarts
                  /\ startUploadVersion(1, versionId, hash, chunkSize,
                                        fileSize)
                  /\ Called("StartUploadVersion", token, "executed")

\* The _id the upsert of uploadVersionChunk gives a chunk document: an
\* ObjectId of its own, which no upload has.
ChunkObjectId(c) == 0 - (1 + c.offset + (MaxOffset + 1) * c.concurrentId)

\* getUploads(versionIds): the uploads of the versions, each with the
\* missing ranges of the offsets that the Map built by reduce holds under the
\* upload's id; reduce files every offset under current._id.
getUploads(versionIds, rows, chunkRows) ==
    LET found == {u \in rows : u.versionId \in versionIds}
        read == {c \in chunkRows : c.uploadId \in {u._id : u \in found}}
        get(id) == {c.offset : c \in {x \in read : ChunkObjectId(x) = id}}
    IN  {[upload |-> u,
          missingRanges |-> getMissingRanges(get(u._id), u.chunksCount)] :
            u \in found}

\* updateServiceServer.FetchUploads; the reply keeps the chunk documents it
\* was computed from.
G_FetchUploads(token, ids) ==
    LET error == GrpcAuthorize(token, ViewRoles)
    IN  IF error # "null"
        THEN Refused("FetchUploads", token, error)
        ELSE /\ reply' = [op |-> "fetch", ok |-> TRUE,
                          uploads |-> getUploads(ids, uploads, chunks),
                          seen |-> chunks]
             /\ Called("FetchUploads", token, "executed")
             /\ UNCHANGED <<provider, uploads, chunks, blobs, zips, queue,
                            log, nextId, calls, su, uc, wk, lastSU>>
             /\ UNCHANGED pvars

\* POST /version/create of the manager router
R_CreateVersion(token, type) ==
    LET error == RestAuthorize(token, EditRoles)
    IN  IF error # "null"
        THEN Refused("POST /version/create", token, error)
        ELSE /\ Created < MaxVersions
             /\ createVersion(1, type, "v1")
             /\ Called("POST /version/create", token, "executed")

\* ---------------------------------------------------- storage folder calls
\* Lines 144 and 309: the limit of transfers started before the call waits
maxParallel == 10

XferOps == {"downloadFolder", "uploadFolder"}

\* The numbers of files enumerateFiles finds in the folders transferred
FolderSizes == {0, 2, MaxFiles}

\* state has the state of the promise of each file; waits has the promises
\* the Promise.any or Promise.all awaited has not seen settled; failed is
\* history: a transfer of the call has failed.
XferIdle == [pc |-> "idle", op |-> "", files |-> 0, file |-> 0,
             promises |-> <<>>, state |-> <<>>, waits |-> {},
             failed |-> FALSE]

\* The transfers not settled
InFlight == {f \in DOMAIN xfer.state : xfer.state[f] = "pending"}

\* Lines 130-131, 295-296: enumerateFiles; an empty folder throws
\* EmptyFolderError. Lines 133-143: the sizes of the files.
FO_Call(op, n) ==
    /\ xfer.pc = "idle"
    /\ xfer' = [XferIdle EXCEPT !.pc = IF n = 0 THEN "rejected" ELSE "mkdir",
                                !.op = op, !.files = n,
                                !.file = IF n = 0 THEN 0 ELSE 1,
                                !.state = [f \in 1..n |-> "none"]]
    /\ UNCHANGED <<uvars, pvars, gcall>>

\* A limit that lets one more transfer start
LimitExceeded(length) == length > maxParallel

\* Lines 181, 346: promises.length >= maxParallel
LimitReached(length) == length >= maxParallel

\* Lines 146, 186-188: the loop goes to the next file; after the last one
\* the call returns when promises is empty and awaits Promise.all(promises)
\* when it is not.
NextFile(x) ==
    IF x.file < x.files
    THEN [x EXCEPT !.pc = "mkdir", !.file = @ + 1, !.waits = {}]
    ELSE IF Len(x.promises) > 0
         THEN [x EXCEPT !.pc = "all",
                        !.waits = {x.promises[k] : k \in 1..Len(x.promises)}]
         ELSE [x EXCEPT !.pc = "resolved", !.waits = {}]

\* Lines 147-183: after mkdir (which can throw) the streams of the file are
\* opened, the promise of its transfer is pushed to promises, and the call
\* awaits Promise.any of a copy of promises when the limit is reached.
FO_Start ==
    /\ xfer.pc = "mkdir"
    /\ \E error \in BOOLEAN :
         IF error
         THEN xfer' = [xfer EXCEPT !.pc = "rejected"]
         ELSE LET pushed == [xfer EXCEPT
                               !.promises = Append(@, xfer.file),
                               !.state[xfer.file] = "pending"]
              IN  xfer' =
                    IF LimitReached(Len(pushed.promises))
                    THEN [pushed EXCEPT
                            !.pc = "any",
                            !.waits = {pushed.promises[k] :
                                         k \in 1..Len(pushed.promises)}]
                    ELSE NextFile(pushed)
    /\ UNCHANGED <<uvars, pvars, gcall>>

\* promises.splice(promises.indexOf(promise), 1); indexOf gives -1 for a
\* promise that is not in the array, and splice(-1, 1) takes the last one.
Splice(promises, f) ==
    LET at == {k \in 1..Len(promises) : promises[k] = f}
        k0 == IF at = {} THEN Len(promises) ELSE CHOOSE k \in at : TRUE
    IN  [k \in 1..(Len(promises) - 1) |->
           IF k < k0 THEN promises[k] ELSE promises[k + 1]]

\* The promise of Promise.any when f, one of the promises it waits for,
\* settles: fulfilled with the first promise that fulfils, rejected when
\* all are rejected.
PromiseAny(waits, f, ok) ==
    IF ok THEN "fulfilled"
    ELSE IF waits \ {f} = {} THEN "rejected" ELSE "pending"

\* The promise of Promise.all when f settles: rejected with the first
\* promise that is rejected, fulfilled when all are fulfilled.
PromiseAll(waits, f, ok) ==
    IF ~ok THEN "rejected"
    ELSE IF waits \ {f} = {} THEN "fulfilled" ELSE "pending"

\* Lines 160-179: the transfer of file f ends (the read stream emits end) or
\* fails (it emits error). The reactions run in the order they were added:
\* the catch handler removes the file written, the finally handler takes
\* the promise out of promises, then the await of the call, if the promise
\* it waits for is settled by this. The promise that finally() returns is
\* rejected with no handler: the process ends on it or goes on, depending on
\* how the runtime treats unhandled rejections.
FO_Settle(f, ok) ==
    /\ xfer.pc \notin {"idle", "exited"}
    /\ f \in InFlight
    /\ \E exits \in BOOLEAN :
         LET done == [xfer EXCEPT !.state[f] = "settled",
                                  !.promises = Splice(@, f),
                                  !.waits = @ \ {f},
                                  !.failed = @ \/ ~ok]
             awaited == IF f \notin xfer.waits THEN "pending"
                        ELSE IF xfer.pc = "any"
                             THEN PromiseAny(xfer.waits, f, ok)
                             ELSE PromiseAll(xfer.waits, f, ok)
         IN  xfer' =
               IF ~ok /\ exits
               THEN [done EXCEPT !.pc = "exited", !.waits = {}]
               ELSE IF awaited = "rejected"
                    THEN [done EXCEPT !.pc = "rejected", !.waits = {}]
               ELSE IF awaited = "fulfilled"
                    THEN IF xfer.pc = "any" THEN NextFile(done)
                         ELSE [done EXCEPT !.pc = "resolved", !.waits = {}]
                    ELSE done
    /\ UNCHANGED <<uvars, pvars, gcall>>

\* ------------------------------------------------------------ specification
Init ==
    /\ provider \in Providers
    /\ uploads = {}
    /\ chunks = {}
    /\ blobs = <<>>
    /\ zips = <<>>
    /\ queue = <<>>
    /\ log = <<>>
    /\ nextId = 1
    /\ calls = 0
    /\ su = [h \in SUHandlers |-> SUIdle]
    /\ uc = [h \in UCHandlers |-> UCIdle]
    /\ wk = [w \in Workers |-> WKIdle]
    /\ reply = NoReply
    /\ lastSU = NoStart
    /\ versions = {}
    /\ files = {}
    /\ output = {}
    /\ pqueue = <<>>
    /\ pw = [w \in Workers |-> PWIdle]
    /\ cv = [h \in CVHandlers |-> CVIdle]
    /\ rs = RSIdle
    /\ cache = <<>>
    /\ pv = PVIdle
    /\ clock = 0
    /\ plog = <<>>
    /\ preply = NoManifest
    /\ gcall = NoCall
    /\ xfer = XferIdle

\* The ObjectIds handed out so far: upload ids are the odd ones, concurrent
\* ids the even ones.
IssuedUploadIds == {i \in 1..(nextId - 1) : i % 2 = 1}
IssuedConcurrentIds == {i \in 1..(nextId - 1) : i % 2 = 0}

Next ==
    \/ \E h \in SUHandlers, id \in Versions, hash \in Hashes,
          chunkSize \in ChunkSizes, fileSize \in FileSizes :
            SU_Call(h, id, hash, chunkSize, fileSize)
    \/ \E h \in SUHandlers : SU_Insert(h)
    \/ \E h \in SUHandlers : SU_DeleteMany(h)
    \/ \E h \in SUHandlers : SU_DeleteFolder(h)
    \/ \E h \in SUHandlers : SU_Find(h)
    \/ \E h \in UCHandlers, uploadId \in IssuedUploadIds,
          concurrentId \in IssuedConcurrentIds, offset \in 0..MaxOffset,
          data \in ChunkData :
            UC_Call(h, uploadId, concurrentId, offset, data)
    \/ \E h \in UCHandlers : UC_Blob(h)
    \/ \E h \in UCHandlers : UC_Upsert(h)
    \/ \E h \in UCHandlers : UC_Count(h)
    \/ \E h \in UCHandlers : UC_Cas(h)
    \/ \E h \in UCHandlers : UC_GetJob(h)
    \/ \E h \in UCHandlers : UC_Remove(h)
    \/ \E h \in UCHandlers : UC_Add(h)
    \/ \E w \in OneWorker : W_Lease(w)
    \/ \E w \in OneWorker : W_Find(w)
    \/ \E w \in OneWorker : W_CasProcessing(w)
    \/ \E w \in OneWorker : W_Download(w)
    \/ \E w \in OneWorker : W_UploadFile(w)
    \/ \E w \in OneWorker : W_CasReady(w)
    \/ \E w \in OneWorker : W_DeleteFolder(w)
    \/ \E w \in OneWorker : W_DeleteChunks(w)

Spec == Init /\ [][Next]_vars

\* ------------------------------------------- specification with two workers
\* Two worker processes serve the queue; one client uploads one-chunk files
\* of either hash, one request at a time, at most MaxWorkerCalls requests.
WK_StartUpload ==
    /\ calls < MaxWorkerCalls
    /\ uc[1].pc = "idle"
    /\ \E hash \in Hashes : startUploadVersion(1, 100, hash, 4, 4)
    /\ UNCHANGED gvars

WK_UploadChunk ==
    /\ calls < MaxWorkerCalls
    /\ su[1].pc = "idle"
    /\ \E uploadId \in IssuedUploadIds, concurrentId \in IssuedConcurrentIds,
          byte \in Bytes :
            uploadVersionChunk(1, uploadId, concurrentId, 0,
                               [len |-> 4, byte |-> byte])

NextWorkers ==
    \/ WK_StartUpload
    \/ SU_Insert(1)
    \/ SU_DeleteMany(1)
    \/ SU_DeleteFolder(1)
    \/ SU_Find(1)
    \/ WK_UploadChunk
    \/ UC_Blob(1)
    \/ UC_Upsert(1)
    \/ UC_Count(1)
    \/ UC_Cas(1)
    \/ UC_GetJob(1)
    \/ UC_Remove(1)
    \/ UC_Add(1)
    \/ \E w \in Workers : W_Lease(w)
    \/ \E w \in Workers : W_Find(w)
    \/ \E w \in Workers : W_CasProcessing(w)
    \/ \E w \in Workers : W_Download(w)
    \/ \E w \in Workers : W_UploadFile(w)
    \/ \E w \in Workers : W_CasReady(w)
    \/ \E w \in Workers : W_DeleteFolder(w)
    \/ \E w \in Workers : W_DeleteChunks(w)

SpecWorkers == Init /\ [][NextWorkers]_vars

\* ------------------------------------------- specification of the catalog
\* Managers create versions, two requests at a time at most, and edit them.
NextVersions ==
    \/ \E h \in CVHandlers, type \in VersionTypes : CV_Call(h, type, "v1")
    \/ \E h \in CVHandlers : CV_Merge(h)
    \/ \E v \in versions, description \in Descriptions :
          EditVersion(v._id, description)

SpecVersions == Init /\ [][NextVersions]_vars

\* ------------------------------------------------ specification of publish
\* The contents of the assembled files
Archives == {Rep("a", 4), Rep("b", 4)}

PB_CreateVersion ==
    /\ Created < MaxVersions
    /\ CV_Call(1, "MAJOR", "v1")

PB_Resolve == RS_Call(0, 0, 0, 0, 2)

\* One manager creates versions, has their assembled files stored, edits
\* them and asks for their publication; one worker serves the queue; a
\* Windows client with BC7 textures at version 0.0.0 asks for its update.
NextPublish ==
    \/ PB_CreateVersion
    \/ CV_Merge(1)
    \/ \E v \in versions, description \in Descriptions :
          EditVersion(v._id, description)
    \/ \E v \in versions, content \in Archives : ZipStored(v._id, content)
    \/ \E v \in versions : PV_Call(v._id)
    \/ PV_Remove
    \/ PV_Add
    \/ \E w \in OneWorker : P_Lease(w)
    \/ \E w \in OneWorker : P_Find(w)
    \/ \E w \in OneWorker : P_CasProcessing(w)
    \/ \E w \in OneWorker : P_Download(w)
    \/ \E w \in OneWorker : P_UploadFolder(w)
    \/ \E w \in OneWorker : P_Transaction(w)
    \/ PB_Resolve
    \/ RS_Redis
    \/ RS_Files

SpecPublish == Init /\ [][NextPublish]_vars

\* Publish of archives with a file under two category folders
NestedArchives == {Rep("a", 4), Rep("d", 4)}

NextClassify ==
    \/ PB_CreateVersion
    \/ CV_Merge(1)
    \/ \E v \in versions, content \in NestedArchives :
          ZipStored(v._id, content)
    \/ \E v \in versions : PV_Call(v._id)
    \/ PV_Remove
    \/ PV_Add
    \/ \E w \in OneWorker : P_Lease(w)
    \/ \E w \in OneWorker : P_Find(w)
    \/ \E w \in OneWorker : P_CasProcessing(w)
    \/ \E w \in OneWorker : P_Download(w)
    \/ \E w \in OneWorker : P_UploadFolder(w)
    \/ \E w \in OneWorker : P_Transaction(w)

SpecClassify == Init /\ [][NextClassify]_vars

\* Publish with the failed job driven again. The steps after an await of
\* processVersion go on when the queue answers, and the worker of the queue
\* takes a waiting job and runs each step of it when the step before is done:
\* a step that can be taken is taken in the end.
NextRedrive ==
    \/ PB_CreateVersion
    \/ CV_Merge(1)
    \/ \E v \in versions, content \in Archives : ZipStored(v._id, content)
    \/ \E v \in versions : PV_Call(v._id)
    \/ PV_Remove
    \/ PV_Add
    \/ \E w \in OneWorker : P_Lease(w)
    \/ \E w \in OneWorker : P_Find(w)
    \/ \E w \in OneWorker : P_CasProcessing(w)
    \/ \E w \in OneWorker : P_Download(w)
    \/ \E w \in OneWorker : P_UploadFolder(w)
    \/ \E w \in OneWorker : P_Transaction(w)

SpecRedrive ==
    /\ Init /\ [][NextRedrive]_vars
    /\ WF_vars(PV_Remove)
    /\ WF_vars(PV_Add)
    /\ \A w \in OneWorker :
         /\ WF_vars(P_Lease(w))
         /\ WF_vars(P_Find(w))
         /\ WF_vars(P_CasProcessing(w))
         /\ WF_vars(P_Download(w))
         /\ WF_vars(P_UploadFolder(w))
         /\ WF_vars(P_Transaction(w))

\* Publish with two workers and jobs delivered again after a lost lock
NextRedelivery ==
    \/ PB_CreateVersion
    \/ CV_Merge(1)
    \/ \E v \in versions, description \in Descriptions :
          EditVersion(v._id, description)
    \/ \E v \in versions : ZipStored(v._id, Rep("a", 4))
    \/ \E v \in versions : PV_Call(v._id)
    \/ PV_Remove
    \/ PV_Add
    \/ \E w \in Workers : P_Lease(w)
    \/ \E w \in Workers : P_Find(w)
    \/ \E w \in Workers : P_CasProcessing(w)
    \/ \E w \in Workers : P_Download(w)
    \/ \E w \in Workers : P_UploadFolder(w)
    \/ \E w \in Workers : P_Transaction(w)
    \/ \E w \in Workers : P_Stalled(w)
    \/ PB_Resolve
    \/ RS_Redis
    \/ RS_Files

SpecRedelivery == Init /\ [][NextRedelivery]_vars

\* ----------------------------------------------- specification of resolve
\* The clients' versions, as (major, minor, revision)
ClientVersions == {<<0, 0, 0>>, <<1, 1, 0>>, <<0, 2, 0>>}

\* BC7 and ASTC
ClientTextures == {2, 4}

\* No request of the manager is in progress and no job waits or runs.
Settled ==
    /\ pv.pc = "idle"
    /\ \A h \in CVHandlers : cv[h].pc = "idle"
    /\ \A w \in Workers : pw[w].pc = "idle"
    /\ \A i \in 1..Len(pqueue) : pqueue[i].status = "failed"

\* The manager creates a version once the assembled files of the versions
\* before it are stored.
RV_CreateVersion(n, types) ==
    /\ Settled
    /\ Created < n
    /\ \A v \in versions : getUploadFile(toHexString(v._id)) \in DOMAIN zips
    /\ \E type \in types : CV_Call(1, type, "v1")

\* The assembled file of a version is stored once.
RV_ZipStored(v, content) ==
    /\ Settled
    /\ getUploadFile(toHexString(v._id)) \notin DOMAIN zips
    /\ ZipStored(v._id, content)

\* The manager asks once for the publication of a version.
RV_ProcessVersion ==
    /\ Settled
    /\ \E v \in versions :
          /\ getUploadFile(toHexString(v._id)) \in DOMAIN zips
          /\ v.state = "PENDING"
          /\ processVersion(v._id)
    /\ UNCHANGED gvars

RV_Resolve ==
    \E c \in ClientVersions, texture \in ClientTextures :
        RS_Call(c[1], c[2], c[3], 0, texture)

\* One manager creates versions, has the assembled file of each stored and
\* asks for its publication, one request at a time and none while a job
\* waits or runs; one worker serves the queue; Windows clients of several
\* versions and texture formats ask for their update.
NextResolve ==
    \/ RV_CreateVersion(MaxReleases, {"MAJOR", "MINOR"})
    \/ CV_Merge(1)
    \/ \E v \in versions, content \in {Rep("a", 4), Rep("c", 4)} :
          RV_ZipStored(v, content)
    \/ RV_ProcessVersion
    \/ PV_Add
    \/ \E w \in OneWorker : P_Lease(w)
    \/ \E w \in OneWorker : P_Find(w)
    \/ \E w \in OneWorker : P_CasProcessing(w)
    \/ \E w \in OneWorker : P_Download(w)
    \/ \E w \in OneWorker : P_UploadFolder(w)
    \/ \E w \in OneWorker : P_Transaction(w)
    \/ RV_Resolve
    \/ RS_Redis
    \/ RS_Files
    \/ \E key \in DOMAIN cache : RS_Expire(key)

SpecResolve == Init /\ [][NextResolve]_vars

\* ------------------------------------------ specification of the manifest cache
\* The releases alternate between the two archives.
TrainArchive(id) == IF id % 2 = 1 THEN Rep("c", 4) ELSE Rep("a", 4)

\* A Windows client with BC7 textures at version 0.0.0
CA_Resolve == RS_Call(0, 0, 0, 0, 2)

\* A train of major releases, published in any order, and one client that
\* asks for its update again and again.
NextCache ==
    \/ RV_CreateVersion(MaxTrain, {"MAJOR"})
    \/ CV_Merge(1)
    \/ \E v \in versions : RV_ZipStored(v, TrainArchive(v._id))
    \/ RV_ProcessVersion
    \/ PV_Add
    \/ \E w \in OneWorker : P_Lease(w)
    \/ \E w \in OneWorker : P_Find(w)
    \/ \E w \in OneWorker : P_CasProcessing(w)
    \/ \E w \in OneWorker : P_Download(w)
    \/ \E w \in OneWorker : P_UploadFolder(w)
    \/ \E w \in OneWorker : P_Transaction(w)
    \/ CA_Resolve
    \/ RS_Redis
    \/ RS_Files
    \/ \E key \in DOMAIN cache : RS_Expire(key)

SpecCache == Init /\ [][NextCache]_vars

\* ------------------------------------------- specification of the transports
\* Callers with every kind of authorization create, edit, fetch and publish
\* versions over gRPC, and create versions over the manager routes.
NextAuth ==
    \/ \E token \in Tokens : G_CreateVersion(token, "MAJOR")
    \/ CV_Merge(1)
    \/ \E token \in Tokens, v \in versions :
          G_EditVersion(token, v._id, "v2")
    \/ \E token \in Tokens, v \in versions : G_FetchVersion(token, v._id)
    \/ \E token \in Tokens, v \in versions : G_ProcessVersion(token, v._id)
    \/ PV_Add
    \/ \E token \in Tokens : R_CreateVersion(token, "MINOR")

SpecAuth == Init /\ [][NextAuth]_vars

\* ------------------------------------ specification of the upload requests
\* The chunk sizes asked for: 8 KiB, 16 KiB, 16 KiB + 2, 24 KiB, 32 KiB,
\* 512 KiB, 512 KiB + 2 and 1 MiB
RequestChunkSizes ==
    {8192, 16384, 16386, 24576, 32768, 524288, 524290, 1048576}

\* The file sizes asked for: 512 bytes, 1 KiB, 48 KiB and 1 MiB
RequestFileSizes == {512, 1024, 49152, 1048576}

\* A caller with the role update:edit, and one without a token
RequestTokens ==
    {[kind |-> "introspected", roles |-> {"update:edit"}],
     [kind |-> "missing", roles |-> {}]}

\* A manager starts the upload of version 100 with requests of every chunk
\* size and file size, one at a time.
NextStart ==
    \/ \E token \in RequestTokens, chunkSize \in RequestChunkSizes,
          fileSize \in RequestFileSizes :
            G_StartUploadVersion(token, 100, calculateFileHash(Rep("a", 4)),
                                 chunkSize, fileSize)
    \/ SU_Insert(1)
    \/ SU_DeleteMany(1)
    \/ SU_DeleteFolder(1)
    \/ SU_Find(1)

SpecStart == Init /\ [][NextStart]_vars

\* ------------------------------------- specification of the upload listing
\* One client starts uploads and sends chunks, one request at a time; one
\* worker serves the queue; a manager lists the uploads of version 100.
NextFetch ==
    \/ \E id \in Versions, hash \in Hashes, chunkSize \in ChunkSizes,
          fileSize \in FileSizes :
            uc[1].pc = "idle" /\ SU_Call(1, id, hash, chunkSize, fileSize)
    \/ SU_Insert(1)
    \/ SU_DeleteMany(1)
    \/ SU_DeleteFolder(1)
    \/ SU_Find(1)
    \/ \E uploadId \in IssuedUploadIds,
          concurrentId \in IssuedConcurrentIds, offset \in 0..MaxOffset,
          data \in ChunkData :
            su[1].pc = "idle" /\ UC_Call(1, uploadId, concurrentId, offset, data)
    \/ UC_Blob(1)
    \/ UC_Upsert(1)
    \/ UC_Count(1)
    \/ UC_Cas(1)
    \/ UC_GetJob(1)
    \/ UC_Remove(1)
    \/ UC_Add(1)
    \/ \E w \in OneWorker : W_Lease(w)
    \/ \E w \in OneWorker : W_Find(w)
    \/ \E w \in OneWorker : W_CasProcessing(w)
    \/ \E w \in OneWorker : W_Download(w)
    \/ \E w \in OneWorker : W_UploadFile(w)
    \/ \E w \in OneWorker : W_CasReady(w)
    \/ \E w \in OneWorker : W_DeleteFolder(w)
    \/ \E w \in OneWorker : W_DeleteChunks(w)
    \/ \E token \in RequestTokens : G_FetchUploads(token, Versions)

SpecFetch == Init /\ [][NextFetch]_vars

\* ------------------------------------------- specification of the epochs
\* One client uploads a file of the first hash, "a" bytes only, and changes
\* the chunk size on the way. It sends one request at a time, but for a
\* StartUpload that overtakes an UploadChunk which has passed its
\* validation and not yet written its blob; one worker serves the queue.
EP_StartUpload ==
    /\ calls < MaxEpochCalls
    /\ uc[1].pc \in {"idle", "blob"}
    /\ \E chunkSize \in ChunkSizes, fileSize \in FileSizes :
          startUploadVersion(1, 100, calculateFileHash(Rep("a", 4)),
                             chunkSize, fileSize)
    /\ UNCHANGED gvars

EP_UploadChunk ==
    /\ calls < MaxEpochCalls
    /\ su[1].pc = "idle"
    /\ \E uploadId \in IssuedUploadIds, concurrentId \in IssuedConcurrentIds,
          offset \in 0..MaxOffset, len \in ChunkSizes :
            uploadVersionChunk(1, uploadId, concurrentId, offset,
                               [len |-> len, byte |-> "a"])

NextEpochs ==
    \/ EP_StartUpload
    \/ SU_Insert(1)
    \/ SU_DeleteMany(1)
    \/ SU_DeleteFolder(1)
    \/ SU_Find(1)
    \/ EP_UploadChunk
    \/ UC_Blob(1)
    \/ UC_Upsert(1)
    \/ UC_Count(1)
    \/ UC_Cas(1)
    \/ UC_GetJob(1)
    \/ UC_Remove(1)
    \/ UC_Add(1)
    \/ \E w \in OneWorker : W_Lease(w)
    \/ \E w \in OneWorker : W_Find(w)
    \/ \E w \in OneWorker : W_CasProcessing(w)
    \/ \E w \in OneWorker : W_Download(w)
    \/ \E w \in OneWorker : W_UploadFile(w)
    \/ \E w \in OneWorker : W_CasReady(w)
    \/ \E w \in OneWorker : W_DeleteFolder(w)
    \/ \E w \in OneWorker : W_DeleteChunks(w)

SpecEpochs == Init /\ [][NextEpochs]_vars

\* ------------------------------------- specification of the reassembly
\* One client uploads the 4-byte file "aabb" (or other bytes under that
\* hash) in chunks of 2 or 4 bytes, one request at a time, at most
\* MaxWorkerCalls requests; one worker serves the queue.
OR_StartUpload ==
    /\ calls < MaxWorkerCalls
    /\ uc[1].pc = "idle"
    /\ \E chunkSize \in ChunkSizes :
          startUploadVersion(1, 100,
                             calculateFileHash(Rep("a", 2) \o Rep("b", 2)),
                             chunkSize, 4)
    /\ UNCHANGED gvars

OR_UploadChunk ==
    /\ calls < MaxWorkerCalls
    /\ su[1].pc = "idle"
    /\ \E uploadId \in IssuedUploadIds, concurrentId \in IssuedConcurrentIds,
          offset \in 0..1, byte \in Bytes, len \in ChunkSizes :
            uploadVersionChunk(1, uploadId, concurrentId, offset,
                               [len |-> len, byte |-> byte])

NextOrder ==
    \/ OR_StartUpload
    \/ SU_Insert(1)
    \/ SU_DeleteMany(1)
    \/ SU_DeleteFolder(1)
    \/ SU_Find(1)
    \/ OR_UploadChunk
    \/ UC_Blob(1)
    \/ UC_Upsert(1)
    \/ UC_Count(1)
    \/ UC_Cas(1)
    \/ UC_GetJob(1)
    \/ UC_Remove(1)
    \/ UC_Add(1)
    \/ \E w \in OneWorker : W_Lease(w)
    \/ \E w \in OneWorker : W_Find(w)
    \/ \E w \in OneWorker : W_CasProcessing(w)
    \/ \E w \in OneWorker : W_Download(w)
    \/ \E w \in OneWorker : W_UploadFile(w)
    \/ \E w \in OneWorker : W_CasReady(w)
    \/ \E w \in OneWorker : W_DeleteFolder(w)
    \/ \E w \in OneWorker : W_DeleteChunks(w)

SpecOrder == Init /\ [][NextOrder]_vars

\* ============================================================== properties
\* Steps of a handler: its call, and its return.
SUCalled(h) == su[h].pc = "idle" /\ su'[h].pc # "idle"
SUReturned(h) == su[h].pc # "idle" /\ su'[h].pc = "idle"
UCEntered(h) == uc[h].pc = "idle" /\ uc'[h].pc # "idle"
UCCalled == calls' # calls /\ su' = su

RowsOfVersion(rows, id) == {r \in rows : r.versionId = id}
Changed(doc, args) == doc.hash # args.hash \/ doc.chunkSize # args.chunkSize
FullRange(n) == <<<<0, n - 1>>>>
IsCeil(n, fileSize, chunkSize) == n * chunkSize >= fileSize /\ (n - 1) * chunkSize < fileSize

\* C1: a StartUpload whose version_id has no Upload row inserts exactly one
\* row, with an upload_id and a concurrent_id no row had before, in state
\* NONE, with chunks_count = ceil(file_size / chunk_size), and returns these
\* two ids and the single missing range [0, chunks_count - 1].
C1_FirstStartUploadInserts ==
    [][\A h \in SUHandlers :
        /\ SUCalled(h) =>
             (su'[h].result = NoRow <=> RowsOfVersion(uploads, su'[h].args.id) = {})
        /\ (SUReturned(h) /\ su[h].result = NoRow) =>
             \E r \in uploads' :
                /\ uploads' = uploads \cup {r}
                /\ \A x \in uploads :
                      r._id # x._id /\ r.concurrentId # x.concurrentId
                /\ \A c \in chunks :
                      r._id # c.uploadId /\ r.concurrentId # c.concurrentId
                /\ r.versionId = su[h].args.id
                /\ r.state = "NONE"
                /\ r.hash = su[h].args.hash
                /\ r.chunkSize = su[h].args.chunkSize
                /\ r.fileSize = su[h].args.fileSize
                /\ IsCeil(r.chunksCount, r.fileSize, r.chunkSize)
                /\ reply'.op = "start" /\ reply'.ok
                /\ reply'.uploadId = r._id
                /\ reply'.concurrentId = r.concurrentId
                /\ reply'.missingRanges = FullRange(r.chunksCount)
      ]_vars

\* A first StartUpload has returned for a file that is not a whole number of
\* chunks (6 bytes in chunks of 4).
C1_Witness ==
    /\ reply.op = "start" /\ reply.ok /\ reply.before = NoRow
    /\ reply.args.fileSize = 6 /\ reply.args.chunkSize = 4
    /\ reply.missingRanges = <<<<0, 1>>>>
    /\ \E r \in uploads : r._id = reply.uploadId /\ r.chunksCount = 2

\* C2: a StartUpload repeated with the same (version_id, hash, chunk_size,
\* file_size) as the StartUpload before it returns the same upload_id and
\* concurrent_id, leaves concurrent_id, state and updated_at of the row as
\* they were, and returns the same missing_ranges when no chunk row of the
\* upload changed in between. Stated for calls that follow each other with
\* no other StartUpload in flight, on a version with a single Upload row.
C2_RepeatedStartUploadIdempotent ==
    [][\A h \in SUHandlers :
        /\ ( /\ SUCalled(h)
             /\ su'[h].prev.ok
             /\ su'[h].prev.args = su'[h].args
             /\ Cardinality(RowsOfVersion(uploads, su'[h].args.id)) = 1 ) =>
              \A r \in RowsOfVersion(uploads, su'[h].args.id) :
                 \E q \in uploads' :
                    /\ q._id = r._id
                    /\ q.concurrentId = r.concurrentId
                    /\ q.state = r.state
                    /\ q.updatedAt = r.updatedAt
        /\ ( /\ SUReturned(h)
             /\ su[h].prev.ok
             /\ su[h].prev.args = su[h].args
             /\ Cardinality(RowsOfVersion(uploads, su[h].args.id)) = 1
             /\ \A k \in SUHandlers \ {h} : su[k].pc = "idle" ) =>
              /\ reply'.ok
              /\ reply'.uploadId = su[h].prev.uploadId
              /\ reply'.concurrentId = su[h].prev.concurrentId
              /\ (su[h].prev.stored = {c \in chunks : c.uploadId = reply'.uploadId}
                    => reply'.missingRanges = su[h].prev.missingRanges)
      ]_vars

\* C3: when StartUpload changes hash or chunk_size of an existing row, the
\* concurrent_id it returns differs from the one the row held before the call
\* and is the one the row holds after it.
C3_RotatedEpochReturned ==
    [][\A h \in SUHandlers :
        ( /\ SUReturned(h)
          /\ reply'.ok
          /\ su[h].result # NoRow
          /\ Changed(su[h].result, su[h].args) ) =>
             /\ reply'.concurrentId # su[h].result.concurrentId
             /\ \E r \in uploads' : /\ r._id = reply'.uploadId
                                    /\ r.concurrentId = reply'.concurrentId
      ]_vars

\* C4: a StartUpload that changes hash or chunk_size of an existing row sets
\* the row to NONE, and when it returns no chunk row that the epoch before
\* had when the call began remains, and the missing range returned is the
\* full range [0, chunks_count - 1] (unless a chunk row was stored while the
\* call ran).
C4_RotationClearsChunks ==
    [][\A h \in SUHandlers :
        /\ ( /\ SUCalled(h)
             /\ su'[h].result # NoRow
             /\ Changed(su'[h].result, su'[h].args) ) =>
               \E r \in uploads' : r._id = su'[h].result._id /\ r.state = "NONE"
        /\ ( /\ SUReturned(h)
             /\ reply'.ok
             /\ su[h].result # NoRow
             /\ Changed(su[h].result, su[h].args) ) =>
               /\ ~\E c \in chunks' :
                      /\ c.uploadId = su[h].result._id
                      /\ c.concurrentId = su[h].result.concurrentId
                      /\ c.createdAt < su[h].currentDate
               /\ (\A c \in chunks' :
                      c.uploadId = su[h].result._id =>
                         c.createdAt < su[h].currentDate)
                   => \E n \in 1..(MaxOffset + 2) :
                         /\ IsCeil(n, su[h].args.fileSize, su[h].args.chunkSize)
                         /\ reply'.missingRanges = FullRange(n)
      ]_vars

\* C5: an UploadChunk is rejected, writing no blob and no chunk row, changing
\* no Upload state and enqueueing no job, when (a) no Upload row has its
\* (upload_id, concurrent_id), (b) its offset is not below chunks_count, or
\* (c) its data length is not the length of that chunk: chunk_size, or for the
\* last chunk file_size - chunk_size * (chunks_count - 1).
C5_InvalidChunkRejected ==
    [][UCCalled =>
        \/ \E h \in UCHandlers :
              /\ UCEntered(h)
              /\ LET a == uc'[h].args IN
                 \E u \in uploads :
                    /\ u._id = a.uploadId /\ u.concurrentId = a.concurrentId
                    /\ a.offset < u.chunksCount
                    /\ a.data.len =
                         IF a.offset = u.chunksCount - 1
                         THEN u.fileSize - u.chunkSize * (u.chunksCount - 1)
                         ELSE u.chunkSize
        \/ /\ reply'.op = "chunk" /\ ~reply'.ok
           /\ uploads' = uploads /\ chunks' = chunks /\ blobs' = blobs
           /\ zips' = zips /\ queue' = queue /\ log' = log /\ uc' = uc
      ]_vars

\* An UploadChunk was rejected for its (upload_id, concurrent_id) while an
\* Upload row exists whose epoch was rotated, and nothing was stored.
C5_Witness ==
    /\ reply.op = "chunk" /\ ~reply.ok
    /\ reply.error = "invalid upload id or concurrent id"
    /\ \E r \in uploads : r.updatedAt > r.createdAt
    /\ chunks = {} /\ blobs = <<>> /\ queue = <<>>

\* Steps of an uploadVersionChunk handler past its validation.
UCStepped(h) == uc[h].pc # "idle" /\ uc'[h] # uc[h]
ChunkRowsOf(rows, a) ==
    {c \in rows : /\ c.uploadId = a.uploadId
                  /\ c.concurrentId = a.concurrentId
                  /\ c.offset = a.offset}
BlobKeyOf(h) == ChunkKey(uc[h].args.uploadId, uc[h].upload.hash, uc[h].args.offset)

\* C6 as stated: an UploadChunk for an (upload_id, concurrent_id, offset) that
\* has a chunk row leaves the chunk rows (their number, the size and the
\* creation time of that row) and the stored blobs as they were.
C6_RepeatedChunkChangesNothing ==
    [][\A h \in UCHandlers :
        (UCStepped(h) /\ ChunkRowsOf(chunks, uc[h].args) # {}) =>
            chunks' = chunks /\ blobs' = blobs
      ]_vars

\* C6: an UploadChunk for an (upload_id, concurrent_id, offset) that has a
\* chunk row leaves the chunk rows (their number, the size and the creation
\* time of that row) as they were, and its uploadBuffer step overwrites the
\* blob of that chunk with the bytes of this call, so the blob content is
\* what it was only when the same bytes are sent again.
C6_RepeatedChunkKeepsRowOverwritesBlob ==
    [][\A h \in UCHandlers :
        (UCStepped(h) /\ ChunkRowsOf(chunks, uc[h].args) # {}) =>
            /\ chunks' = chunks
            /\ IF uc[h].pc = "blob"
               THEN /\ DOMAIN blobs' = DOMAIN blobs \cup {BlobKeyOf(h)}
                    /\ blobs'[BlobKeyOf(h)]
                         = StoredChunk(uc[h].args.data, uc[h].args.concurrentId)
                    /\ \A k \in DOMAIN blobs \ {BlobKeyOf(h)} : blobs'[k] = blobs[k]
               ELSE blobs' = blobs
      ]_vars

\* An UploadChunk has passed its upsert on a chunk row that was there, stored
\* by an earlier call, and the blob holds the bytes of this call.
C6_Witness ==
    \E h \in UCHandlers :
       /\ uc[h].pc = "count"
       /\ uc[h].matched
       /\ BlobKeyOf(h) \in DOMAIN blobs
       /\ blobs[BlobKeyOf(h)]
            = StoredChunk(uc[h].args.data, uc[h].args.concurrentId)
       /\ \E c \in ChunkRowsOf(chunks, uc[h].args) :
             c.createdAt < calls /\ c.size = uc[h].args.data.len

\* History of the queue and of the NONE -> PENDING updates, per job id.
Events(ev, id) == {i \in 1..Len(log) : log[i] = [ev |-> ev, id |-> id]}
LoggedIds == {log[i].id : i \in 1..Len(log)}

\* C7: for each Upload epoch, the job version-{v}-{u}-{c} is inserted in the
\* queue at most once and at most one handler's NONE -> PENDING update
\* matches the row, whatever the order and the interleaving of the
\* UploadChunk handlers and the worker. Stated for the epochs none of whose
\* jobs has failed.
C7_OneJobPerEpoch ==
    \A id \in LoggedIds :
        Events("fail", id) = {} =>
            /\ Cardinality(Events("add", id)) <= 1
            /\ Cardinality(Events("cas", id)) <= 1

\* C8: every Upload row has at most chunks_count chunk rows of its epoch,
\* each with an offset below chunks_count.
C8_ChunkRowsWithinCount ==
    \A u \in uploads :
        LET rows == {c \in chunks : /\ c.uploadId = u._id
                                    /\ c.concurrentId = u.concurrentId}
        IN  /\ Cardinality(rows) <= u.chunksCount
            /\ \A c \in rows : c.offset < u.chunksCount

AllStored(u, rows) ==
    \A o \in 0..(u.chunksCount - 1) :
        \E c \in rows : /\ c.uploadId = u._id
                        /\ c.concurrentId = u.concurrentId
                        /\ c.offset = o

\* C9: the state of an Upload row changes only from NONE to PENDING, by an
\* UploadChunk handler of the epoch of the row when all chunks of that epoch
\* are stored; from PENDING to PROCESSING and from PROCESSING to READY, by the
\* job of the epoch of the row; or to NONE, by a StartUpload that changes
\* hash or chunk_size and with them the epoch. A new row starts in NONE.
C9_UploadStateMachine ==
    [][/\ \A q \in uploads' :
            (~\E r \in uploads : r._id = q._id) => q.state = "NONE"
       /\ \A r \in uploads : \A q \in uploads' :
            (q._id = r._id /\ q.state # r.state) =>
               \/ /\ r.state = "NONE" /\ q.state = "PENDING"
                  /\ q.concurrentId = r.concurrentId
                  /\ \E h \in UCHandlers :
                        /\ uc[h].pc = "cas"
                        /\ uc'[h].pc # "cas"
                        /\ uc[h].args.uploadId = r._id
                        /\ uc[h].args.concurrentId = r.concurrentId
                  /\ AllStored(r, chunks)
               \/ /\ r.state = "PENDING" /\ q.state = "PROCESSING"
                  /\ q.concurrentId = r.concurrentId
                  /\ \E w \in Workers :
                        /\ wk'[w] # wk[w]
                        /\ wk[w].job = JobId(r.versionId, r._id, r.concurrentId)
               \/ /\ r.state = "PROCESSING" /\ q.state = "READY"
                  /\ q.concurrentId = r.concurrentId
                  /\ \E w \in Workers :
                        /\ wk'[w] # wk[w]
                        /\ wk[w].job = JobId(r.versionId, r._id, r.concurrentId)
               \/ /\ q.state = "NONE"
                  /\ q.concurrentId # r.concurrentId
                  /\ (q.hash # r.hash \/ q.chunkSize # r.chunkSize)
                  /\ \E h \in SUHandlers : SUCalled(h)
      ]_vars

\* C10: a version has at most one Upload row, and every StartUpload is given
\* the upload_id of that row, whatever the interleaving of the StartUpload
\* handlers of that version.
C10_OneUploadPerVersion ==
    /\ \A id \in Versions : Cardinality(RowsOfVersion(uploads, id)) <= 1
    /\ (reply.op = "start" /\ reply.ok) =>
          \A r \in RowsOfVersion(uploads, reply.args.id) : r._id = reply.uploadId

\* The zip of a version in the Input store has the bytes the Upload row
\* declares.
ZipMatches(r) ==
    LET key == getUploadFile(toHexString(r.versionId)) IN
    /\ key \in DOMAIN zips
    /\ calculateFileHash(zips[key]) = r.hash

\* C11: in every reachable state, several workers and a rotation during a
\* job of the previous epoch included, every Upload in state READY has its
\* zip in the Input store and the SHA-256 of the zip is the Upload's hash.
\* Stated for states with one Upload row per version.
C11_ReadyUploadHasMatchingZip ==
    (\A r \in uploads : Cardinality(RowsOfVersion(uploads, r.versionId)) = 1)
        => \A r \in uploads : r.state = "READY" => ZipMatches(r)

\* The step of worker w that follows downloadFolder: concatenation and hash
\* comparison.
WDownloadStep(w) == wk[w].pc = "download" /\ wk'[w] # wk[w]

\* C12 as stated: when the SHA-256 of the reassembled file differs from
\* upload.hash the job returns and the Upload of the job is left in state
\* PROCESSING.
C12_MismatchLeavesProcessing ==
    [][\A w \in Workers :
         (WDownloadStep(w) /\ wk'[w].pc = "idle" /\ log' = log) =>
            \A r \in uploads' :
               r._id = wk[w].upload._id => r.state = "PROCESSING"
      ]_vars

\* C12: the job goes on to uploadFile only with a file whose SHA-256 is
\* upload.hash; otherwise it stops there: no zip is uploaded, no chunk row
\* and no chunk blob is deleted, and no Upload row changes, so the Upload
\* keeps the state it had and does not become READY in that execution.
C12_MismatchStopsJob ==
    [][\A w \in Workers :
         WDownloadStep(w) =>
            /\ wk'[w].pc = "uploadFile" =>
                  calculateFileHash(wk'[w].content) = wk[w].upload.hash
            /\ wk'[w].pc # "uploadFile" =>
                  /\ wk'[w].pc = "idle"
                  /\ uploads' = uploads
                  /\ chunks' = chunks
                  /\ blobs' = blobs
                  /\ zips' = zips
      ]_vars

\* A job has returned at the hash comparison: its Upload is PROCESSING, the
\* chunk rows and blobs are still there, there is no zip, and the queue and
\* the workers are idle with no job having failed.
C12_Witness ==
    /\ \E r \in uploads :
          /\ r.state = "PROCESSING"
          /\ \E c \in chunks : c.uploadId = r._id /\ c.concurrentId = r.concurrentId
          /\ Events("add", JobId(r.versionId, r._id, r.concurrentId)) # {}
    /\ zips = <<>>
    /\ blobs # <<>>
    /\ queue = <<>>
    /\ \A w \in Workers : wk[w].pc = "idle"

\* ------------------------------------ specification of the folder calls
NextXfer ==
    \/ \E op \in XferOps, n \in FolderSizes : FO_Call(op, n)
    \/ FO_Start
    \/ \E f \in 1..MaxFiles, ok \in BOOLEAN : FO_Settle(f, ok)

SpecXfer == Init /\ [][NextXfer]_vars

\* ------------------------------- specification of upload and publish
\* A manager creates the version, uploads its file of 4 bytes in one chunk
\* (starting again with another hash when they like), and asks for the
\* publish, one request at a time; one worker serves each queue.
PL_StartUpload ==
    /\ calls < MaxCalls
    /\ uc[1].pc = "idle"
    /\ \E v \in versions, hash \in Hashes :
          startUploadVersion(1, v._id, hash, 4, 4)
    /\ UNCHANGED gvars

PL_UploadChunk ==
    /\ calls < MaxCalls
    /\ su[1].pc = "idle"
    /\ \E uploadId \in IssuedUploadIds, concurrentId \in IssuedConcurrentIds,
          byte \in Bytes :
            uploadVersionChunk(1, uploadId, concurrentId, 0,
                               [len |-> 4, byte |-> byte])

NextPipeline ==
    \/ PB_CreateVersion
    \/ CV_Merge(1)
    \/ PL_StartUpload
    \/ SU_Insert(1)
    \/ SU_DeleteMany(1)
    \/ SU_DeleteFolder(1)
    \/ SU_Find(1)
    \/ PL_UploadChunk
    \/ UC_Blob(1)
    \/ UC_Upsert(1)
    \/ UC_Count(1)
    \/ UC_Cas(1)
    \/ UC_GetJob(1)
    \/ UC_Remove(1)
    \/ UC_Add(1)
    \/ \E w \in OneWorker : W_Lease(w)
    \/ \E w \in OneWorker : W_Find(w)
    \/ \E w \in OneWorker : W_CasProcessing(w)
    \/ \E w \in OneWorker : W_Download(w)
    \/ \E w \in OneWorker : W_UploadFile(w)
    \/ \E w \in OneWorker : W_CasReady(w)
    \/ \E w \in OneWorker : W_DeleteFolder(w)
    \/ \E w \in OneWorker : W_DeleteChunks(w)
    \/ \E v \in versions : PV_Call(v._id)
    \/ PV_Remove
    \/ PV_Add
    \/ \E w \in OneWorker : P_Lease(w)
    \/ \E w \in OneWorker : P_Find(w)
    \/ \E w \in OneWorker : P_CasProcessing(w)
    \/ \E w \in OneWorker : P_Download(w)
    \/ \E w \in OneWorker : P_UploadFolder(w)
    \/ \E w \in OneWorker : P_Transaction(w)

SpecPipeline == Init /\ [][NextPipeline]_vars

\* ------------------------------- specification of overlapping creations
\* Two managers create versions at the same time; the versions are then
\* published one by one, and a Windows client at 0.0.0 asks for its update.
OV_CreateVersion ==
    /\ Created < MaxReleases
    /\ pv.pc = "idle"
    /\ \A w \in Workers : pw[w].pc = "idle"
    /\ \E h \in CVHandlers, type \in {"MAJOR", "MINOR"} :
          CV_Call(h, type, "v1")

NextOverlap ==
    \/ OV_CreateVersion
    \/ \E h \in CVHandlers : CV_Merge(h)
    \/ \E v \in versions : RV_ZipStored(v, Rep("a", 4))
    \/ RV_ProcessVersion
    \/ PV_Add
    \/ \E w \in OneWorker : P_Lease(w)
    \/ \E w \in OneWorker : P_Find(w)
    \/ \E w \in OneWorker : P_CasProcessing(w)
    \/ \E w \in OneWorker : P_Download(w)
    \/ \E w \in OneWorker : P_UploadFolder(w)
    \/ \E w \in OneWorker : P_Transaction(w)
    \/ CA_Resolve
    \/ RS_Redis
    \/ RS_Files
    \/ \E key \in DOMAIN cache : RS_Expire(key)

SpecOverlap == Init /\ [][NextOverlap]_vars

\* ------------------------------------- specification of the hash spellings
\* The spellings of the SHA-256 of aaaa that StartUploadVersion accepts:
\* hex digits in lower case, as calculateFileHash prints them, and in upper
\* case.
Spellings ==
    {calculateFileHash(Rep("a", 4)), toUpperCase(calculateFileHash(Rep("a", 4)))}

\* A client starts the upload of the 4-byte file aaaa, and starts it again
\* with the same request when it likes.
SP_StartUpload ==
    /\ calls < MaxCalls
    /\ uc[1].pc = "idle"
    /\ \E hash \in Spellings, chunkSize \in ChunkSizes :
          /\ \A u \in uploads : u.hash = hash /\ u.chunkSize = chunkSize
          /\ startUploadVersion(1, 100, hash, chunkSize, 4)
    /\ UNCHANGED gvars

\* The client sends chunks of the file.
SP_UploadChunk ==
    /\ calls < MaxCalls
    /\ su[1].pc = "idle"
    /\ \E uploadId \in IssuedUploadIds, concurrentId \in IssuedConcurrentIds,
          offset \in 0..1, len \in ChunkSizes :
            uploadVersionChunk(1, uploadId, concurrentId, offset,
                               [len |-> len, byte |-> "a"])

NextSpelling ==
    \/ SP_StartUpload
    \/ SU_Insert(1)
    \/ SU_Find(1)
    \/ SP_UploadChunk
    \/ UC_Blob(1)
    \/ UC_Upsert(1)
    \/ UC_Count(1)
    \/ UC_Cas(1)
    \/ UC_GetJob(1)
    \/ UC_Remove(1)
    \/ UC_Add(1)
    \/ \E w \in OneWorker : W_Lease(w)
    \/ \E w \in OneWorker : W_Find(w)
    \/ \E w \in OneWorker : W_CasProcessing(w)
    \/ \E w \in OneWorker : W_Download(w)
    \/ \E w \in OneWorker : W_UploadFile(w)
    \/ \E w \in OneWorker : W_CasReady(w)
    \/ \E w \in OneWorker : W_DeleteFolder(w)
    \/ \E w \in OneWorker : W_DeleteChunks(w)

\* A handler goes on after each await, and the worker of the queue takes a
\* waiting job and runs it step by step.
SpecSpelling ==
    /\ Init /\ [][NextSpelling]_vars
    /\ WF_vars(SU_Insert(1)) /\ WF_vars(SU_Find(1))
    /\ WF_vars(UC_Blob(1)) /\ WF_vars(UC_Upsert(1)) /\ WF_vars(UC_Count(1))
    /\ WF_vars(UC_Cas(1)) /\ WF_vars(UC_GetJob(1)) /\ WF_vars(UC_Add(1))
    /\ WF_vars(UC_Remove(1))
    /\ \A w \in OneWorker :
         /\ WF_vars(W_Lease(w)) /\ WF_vars(W_Find(w))
         /\ WF_vars(W_CasProcessing(w)) /\ WF_vars(W_Download(w))
         /\ WF_vars(W_UploadFile(w)) /\ WF_vars(W_CasReady(w))
         /\ WF_vars(W_DeleteFolder(w)) /\ WF_vars(W_DeleteChunks(w))

\* -------------------------------------------------------------- the catalog
\* C13: after any interleaving of CreateVersion calls no two Version
\* documents have the same (major, minor, revision).
C13_VersionTuplesUnique ==
    \A v, u \in versions : v.version = u.version => v._id = u._id

\* The greatest tuple of a catalog, 0.0.0 for the empty one
IsGreatest(t, rows) ==
    IF rows = {}
    THEN t = [major |-> 0, minor |-> 0, revision |-> 0]
    ELSE /\ \E v \in rows : v.version = t
         /\ \A v \in rows : v.version = t \/ TupleLess(v.version, t)

\* The slot a VersionType selects
Slot(type) ==
    IF type = "MAJOR" THEN <<1, 0, 0>>
    ELSE IF type = "MINOR" THEN <<0, 1, 0>> ELSE <<0, 0, 1>>

CVMerged(h) == cv[h].pc = "merge" /\ cv'[h].pc = "idle"

\* C14: CreateVersion(type) creates one Version, in state PENDING and with
\* no UpdateFile, whose tuple is the greatest tuple of the catalog it read
\* (0.0.0 for an empty catalog) with the slot selected by type incremented
\* by 1 and the other two slots unchanged; CreateVersion(MAJOR) on the
\* empty catalog yields 1.0.0.
C14_CreateVersionIncrementsSlot ==
    [][\A h \in CVHandlers :
         CVMerged(h) =>
            \E d \in versions' \ versions :
               /\ versions' = versions \cup {d}
               /\ d.state = "PENDING"
               /\ getVersion(d._id)'.filesCount = 0
               /\ \E t \in [major : 0..MaxCreates + 1, minor : 0..MaxCreates + 1,
                              revision : 0..MaxCreates + 1] :
                     /\ IsGreatest(t, cv[h].seen)
                     /\ d.version.major = t.major + Slot(cv[h].type)[1]
                     /\ d.version.minor = t.minor + Slot(cv[h].type)[2]
                     /\ d.version.revision = t.revision + Slot(cv[h].type)[3]
               /\ (cv[h].seen = {} /\ cv[h].type = "MAJOR") =>
                     /\ d.version = [major |-> 1, minor |-> 0, revision |-> 0]
                     /\ plog'[Len(plog')].version = d.version
      ]_vars

\* A catalog of 0.0.1 and, created from it by MINOR and then MAJOR, 0.1.1
\* and 1.1.1, all PENDING
C14_Witness ==
    /\ Len(plog) = 3
    /\ plog[1].type = "REVISION" /\ plog[2].type = "MINOR"
    /\ plog[3].type = "MAJOR"
    /\ {v.version : v \in versions} =
          {[major |-> 0, minor |-> 0, revision |-> 1],
           [major |-> 0, minor |-> 1, revision |-> 1],
           [major |-> 1, minor |-> 1, revision |-> 1]}
    /\ \A v \in versions : v.state = "PENDING"

\* The first n replies of createVersion are those of n successive calls (a
\* call is served by handler 1 only when no other call is being served)
\* of the types given.
Successive(types) ==
    /\ Len(plog) >= Len(types)
    /\ \A i \in 1..Len(types) : plog[i].h = 1 /\ plog[i].type = types[i]

Tuple(major, minor, revision) ==
    [major |-> major, minor |-> minor, revision |-> revision]

\* C15 as stated: three successive CreateVersion(REVISION) calls yield
\* 1.0.0, 1.0.1 and 1.0.2, in that order.
C15_ThreeRevisionsFromOneZeroZero ==
    Successive(<<"REVISION", "REVISION", "REVISION">>) =>
        /\ plog[1].version = Tuple(1, 0, 0)
        /\ plog[2].version = Tuple(1, 0, 1)
        /\ plog[3].version = Tuple(1, 0, 2)

\* C15: on the empty catalog three successive CreateVersion(REVISION) calls
\* yield 0.0.1, 0.0.2 and 0.0.3, in that order; 1.0.0, 1.0.1 and 1.0.2 are
\* what CreateVersion(MAJOR) and two CreateVersion(REVISION) calls yield.
C15_SuccessiveRevisions ==
    /\ Successive(<<"REVISION", "REVISION", "REVISION">>) =>
          /\ plog[1].version = Tuple(0, 0, 1)
          /\ plog[2].version = Tuple(0, 0, 2)
          /\ plog[3].version = Tuple(0, 0, 3)
    /\ Successive(<<"MAJOR", "REVISION", "REVISION">>) =>
          /\ plog[1].version = Tuple(1, 0, 0)
          /\ plog[2].version = Tuple(1, 0, 1)
          /\ plog[3].version = Tuple(1, 0, 2)

\* Three successive CreateVersion(REVISION) calls have returned and the
\* catalog holds their three versions.
C15_Witness ==
    /\ Successive(<<"REVISION", "REVISION", "REVISION">>)
    /\ \A h \in CVHandlers : cv[h].pc = "idle"
    /\ \A i \in 1..3 : \E v \in versions :
          v._id = plog[i].id /\ v.version = plog[i].version

\* ------------------------------------------------------------------ publish
\* C16: the state of a Version never goes backward: a step changes it only
\* from PENDING to PROCESSING or from PROCESSING to READY, and a READY
\* version stays READY, whatever ProcessVersion requests, jobs run again and
\* EditVersion requests there are.
C16_VersionStateForward ==
    [][\A v \in versions :
         \E u \in versions' :
            /\ u._id = v._id
            /\ \/ u.state = v.state
               \/ v.state = "PENDING" /\ u.state = "PROCESSING"
               \/ v.state = "PROCESSING" /\ u.state = "READY"
      ]_vars

\* A READY version that was edited, after two ProcessVersion requests, with
\* no job left.
C16_Witness ==
    /\ \E v \in versions :
          v.state = "READY" /\ v.description = "v2" /\ v.updatedAt > v.createdAt
    /\ pv.count >= 2
    /\ pqueue = <<>>
    /\ \A w \in Workers : pw[w].pc = "idle"

\* The UpdateFile documents of a version
RowsOf(rows, versionId) == {f \in rows : f.versionId = versionId}

\* The step of the resolver that queries the files
RSQueried == rs.pc = "files" /\ rs'.pc = "idle"

\* C17: the UpdateFile documents of a version appear all at once, in the
\* step that makes the version READY, and a resolver whose version query
\* returned a version finds, in its file query, that version READY with
\* all its documents: its manifest has a file for every local path of the
\* documents in the caller's categories, and no version of it is without
\* documents.
C17_ReadyVersionHasAllFiles ==
    [][/\ \A v \in versions' :
            RowsOf(files', v._id) # RowsOf(files, v._id) =>
               /\ v.state = "READY"
               /\ \E w \in Workers :
                     /\ pw[w].pc = "transaction"
                     /\ pw[w].rows # {}
                     /\ RowsOf(files', v._id) =
                           RowsOf(files, v._id) \cup pw[w].rows
       /\ RSQueried =>
            \A v \in rs.versions :
               /\ v.state = "READY"
               /\ v \in versions \/ \E u \in versions :
                     u._id = v._id /\ u.state = "READY"
               /\ RowsOf(files, v._id) # {}
               /\ \A f \in RowsOf(files, v._id) :
                     f.category \in RelevantCategories(rs.os, rs.texture) =>
                        \E e \in preply'.files : e.LocalPath = f.localPath
      ]_vars

\* The resolver has computed the manifest of 1.0.0 with the two files of
\* its archive that a Windows client gets.
C17_Witness ==
    /\ preply.version = VersionString(Tuple(1, 0, 0))
    /\ {e.LocalPath : e \in preply.files} =
          {Str(<<"general", "/", "a.png">>), Str(<<"windows", "/", "w.dll">>)}
    /\ rs.pc = "idle"

\* The entries of the queue that are failed jobs
FailedJobs(q) == {q[i].id : i \in {k \in 1..Len(q) : q[k].status = "failed"}}

C19_UpdateFilesUnique ==
    \A f, g \in files :
        (f.versionId = g.versionId /\ f.localPath = g.localPath
            /\ f.category = g.category) => f = g

\* C20: for every UpdateFile document the Output store has, under the
\* publish prefix of its version, the blob named file_name + extension.
C20_PackedBlobsInOutput ==
    \A f \in files :
        [prefix |-> PublishPrefix(toHexString(f.versionId)),
         name |-> f.fileName, extension |-> f.extension] \in output

\* The step in which getUpdateFiles answers that there is no update
RSNone == rs.pc = "idle" /\ rs' = rs /\ preply' # preply

\* The step in which getUpdateFiles finds versions
RSFound == rs.pc = "idle" /\ rs'.pc = "redis"

\* The versions a client at c is behind
Above(c) == {v \in versions : TupleLess(Tuple(c[1], c[2], c[3]), v.version)}

\* C21: resolve goes on with exactly the READY versions whose (major,
\* minor, revision) is lexicographically greater than the client's, and the
\* files of its manifest are files of these versions; when there is no such
\* version it answers, in the step of the call, with the client's own
\* version string and no files, and the cache stays as it is.
C21_ResolveUsesReadyAbove ==
    [][/\ RSFound =>
            /\ rs'.versions = {v \in Above(rs'.client) : v.state = "READY"}
            /\ rs'.versions # {}
            /\ cache' = cache /\ preply' = preply
       /\ RSNone =>
            /\ preply'.files = {}
            /\ cache' = cache
            /\ \E c \in ClientVersions :
                  /\ preply'.version =
                        Str(<<ToString(c[1]), ".", ToString(c[2]), ".",
                              ToString(c[3])>>)
                  /\ \A v \in Above(c) : v.state # "READY"
       /\ RSQueried =>
            \A e \in preply'.files :
               \E v \in rs.versions :
                  /\ e.UrlPath = toUpperCase(toHexString(v._id))
                  /\ v.state = "READY"
                  /\ v \in Above(rs.client)
      ]_vars

\* A client at 0.2.0 was told that there is no update while 0.1.0 is READY
\* and a version above 0.2.0 is not READY yet.
C21_Witness ==
    /\ preply = [version |-> Str(<<"0", ".", "2", ".", "0">>), files |-> {}]
    /\ rs.pc = "idle"
    /\ \E v \in versions :
          v.state = "READY" /\ v.version = Tuple(0, 1, 0)
    /\ \E v \in Above(<<0, 2, 0>>) : v.state \in {"PENDING", "PROCESSING"}

\* The entry of the manifest for the UpdateFile document f of version v
EntryOf(v, f) ==
    [UrlPath |-> toUpperCase(toHexString(v._id)), LocalPath |-> f.localPath,
     Filename |-> f.fileName, Extension |-> f.extension, CRC32 |-> f.crc32]

\* C22: in a manifest computed from the files found, whatever the order of
\* the cursor, no local path occurs twice, every entry is the entry of a
\* file found, and for every file found the manifest has, for its local
\* path, the entry of a file whose version was created at the same time or
\* later.
C22_NewestFileWins ==
    [][RSQueried =>
         /\ \A e1, e2 \in preply'.files :
               e1.LocalPath = e2.LocalPath => e1 = e2
         /\ \A e \in preply'.files :
               \E f \in FoundFiles(rs) : e = EntryOf(VersionOf(rs, f), f)
         /\ \A f \in FoundFiles(rs) :
               \E k \in FoundFiles(rs) :
                  /\ k.localPath = f.localPath
                  /\ VersionOf(rs, f).createdAt <= VersionOf(rs, k).createdAt
                  /\ EntryOf(VersionOf(rs, k), k) \in preply'.files
      ]_vars

\* Two READY versions have a file general/a.png each, and the last manifest
\* has, for general/a.png, the file of the version created last.
C22_Witness ==
    /\ rs.pc = "idle"
    /\ \E v1, v2 \in versions :
          /\ v1.state = "READY" /\ v2.state = "READY"
          /\ v1.createdAt < v2.createdAt
          /\ \E f1 \in RowsOf(files, v1._id), f2 \in RowsOf(files, v2._id) :
                /\ f1.localPath = Str(<<"general", "/", "a.png">>)
                /\ f2.localPath = f1.localPath
                /\ EntryOf(v2, f2) \in preply.files
                /\ EntryOf(v1, f1) \notin preply.files

\* UpdatesCategories of a Windows client: General, Desktop, Windows, and the
\* category of its texture format (BC7 is 12, ASTC is 14)
WindowsCategories(texture) ==
    {0, 1, 20} \cup (IF texture = 2 THEN {12} ELSE {14})

\* C23: a manifest computed for a Windows client has entries only of files
\* of the versions found whose category is General, Desktop, Windows or that
\* of the client's texture format, each with the upper-case hex id of its
\* version as UrlPath, and it has an entry for the local path of every such
\* file; when one version was found, whose files are one general, one bc7
\* and one windows file, the manifest of a BC7 client is exactly the three
\* entries of these files.
C23_ManifestOfRelevantCategories ==
    [][(RSQueried /\ rs.os = 0) =>
         LET relevant ==
               {f \in files :
                  /\ \E v \in rs.versions : v._id = f.versionId
                  /\ f.category \in WindowsCategories(rs.texture)}
         IN  /\ \A e \in preply'.files :
                   \E f \in relevant :
                      /\ e = EntryOf(VersionOf(rs, f), f)
                      /\ e.UrlPath.upper
                      /\ e.UrlPath.text = f.versionId
             /\ \A f \in relevant :
                   \E e \in preply'.files : e.LocalPath = f.localPath
             /\ \A v \in rs.versions :
                   (/\ rs.versions = {v}
                    /\ rs.texture = 2
                    /\ {f.category : f \in RowsOf(files, v._id)} = {0, 12, 20}
                    /\ Cardinality(RowsOf(files, v._id)) = 3)
                   => /\ preply'.files =
                            {EntryOf(v, f) : f \in RowsOf(files, v._id)}
                      /\ Cardinality(preply'.files) = 3
      ]_vars

\* The only READY version has the files general/a.png, bc7/b.ktx and
\* windows/w.dll, and the last manifest, of a BC7 client at 0.0.0, has these
\* three, with distinct file names, as .eupdz, under the upper-case id.
C23_Witness ==
    /\ rs.pc = "idle"
    /\ \E v \in versions :
          /\ \A u \in versions : u.state = "READY" => u = v
          /\ v.state = "READY"
          /\ {e.LocalPath : e \in preply.files} =
                {Str(<<"general", "/", "a.png">>), Str(<<"bc7", "/", "b.ktx">>),
                 Str(<<"windows", "/", "w.dll">>)}
          /\ Cardinality({e.Filename : e \in preply.files}) = 3
          /\ \A e \in preply.files :
                /\ e.Extension = ".eupdz"
                /\ e.UrlPath = [text |-> v._id, upper |-> TRUE]

\* The step in which getUpdateFiles returns the manifest kept in the cache
RSCached == rs.pc = "redis" /\ rs'.pc = "idle"

\* The sets of files of the manifests getUpdateFiles computes for r from
\* the UpdateFile documents
ComputedFiles(r) ==
    {LET map == filesMap(r, cursor)
     IN  Manifest(r, {map[p].file : p \in DOMAIN map}).files
       : cursor \in CursorOrders(FoundFiles(r))}

\* C24: the manifest resolve returns from the cache, for the READY versions
\* it found, has the version and the set of files of a manifest computed
\* from these versions and their files.
C24_CachedEqualsComputed ==
    [][RSCached =>
         /\ preply'.version = VersionString(LastCreated(rs.versions).version)
         /\ preply'.files \in ComputedFiles(rs)
      ]_vars

\* The entries of a queue that are live jobs with the id jobId
LiveJobs(q, jobId) ==
    {i \in 1..Len(q) : q[i].id = jobId /\ q[i].status \in {"waiting", "active"}}

\* C25: whatever requests enqueue the job of a version, the queue holds at
\* most one live (waiting or active) job with its id, and at most one
\* worker at a time runs the publish of the version.
C25_OnePublishPerVersion ==
    /\ \A i \in 1..Len(pqueue) :
          Cardinality(LiveJobs(pqueue, pqueue[i].id)) <= 1
    /\ \A w1, w2 \in Workers :
          (/\ pw[w1].pc # "idle"
           /\ pw[w2].pc # "idle"
           /\ pw[w1].job = pw[w2].job) => w1 = w2

\* The operations that write, and those that read
WriteOps ==
    {"CreateVersion", "EditVersion", "ProcessVersion", "POST /version/create"}
ReadOps == {"FetchVersion"}

\* C26: an operation that writes is executed only for a caller whose token
\* has the role update:edit, and one that reads only for a caller whose
\* token has the role update:view.
C26_OperationsRequireRole ==
    gcall.outcome = "executed" =>
        /\ gcall.op \in WriteOps => "update:edit" \in gcall.roles
        /\ gcall.op \in ReadOps => "update:view" \in gcall.roles

\* The powers of two from 16 KiB to 512 KiB
ChunkSizePowers == {16384, 32768, 65536, 131072, 262144, 524288}

\* C27: every Upload document has a chunkSize that is a power of two from
\* 16 KiB to 512 KiB, and chunksCount = ceil(fileSize / chunkSize) >= 1.
C27_ChunkSizePowerOfTwo ==
    \A u \in uploads :
        /\ u.chunkSize \in ChunkSizePowers
        /\ u.chunksCount >= 1
        /\ (u.chunksCount - 1) * u.chunkSize < u.fileSize
        /\ u.fileSize <= u.chunksCount * u.chunkSize

\* ranges is the sorted list of the pairwise disjoint, non-adjacent closed
\* intervals whose union is 0..(N - 1) without S
IsMissingRanges(ranges, S, N) ==
    /\ \A i \in 1..Len(ranges) :
          /\ Len(ranges[i]) = 2
          /\ 0 <= ranges[i][1] /\ ranges[i][1] <= ranges[i][2]
          /\ ranges[i][2] <= N - 1
    /\ \A i \in 1..(Len(ranges) - 1) : ranges[i][2] + 1 < ranges[i + 1][1]
    /\ UNION {ranges[i][1]..ranges[i][2] : i \in 1..Len(ranges)}
          = (0..(N - 1)) \ S
    /\ (ranges = <<>>) <=> (S = 0..(N - 1))

\* The offsets within 0..(N - 1) of the chunk documents of an upload
PresentOffsets(rows, uploadId, N) ==
    {c.offset : c \in {x \in rows : x.uploadId = uploadId}} \cap (0..(N - 1))

\* C28: missing_ranges(S, N) is the sorted list of pairwise disjoint,
\* non-adjacent closed intervals whose union is 0..N-1 without S, empty
\* exactly when S is 0..N-1, and it is the list that a StartUpload which
\* found the row and a FetchUploads return for the stored offsets S.
C28_RepliesListMissingRanges ==
    /\ (lastSU.ok /\ reply.op = "start" /\ reply.before # NoRow) =>
          LET N == Ceil(lastSU.args.fileSize, lastSU.args.chunkSize)
          IN  IsMissingRanges(lastSU.missingRanges,
                              PresentOffsets(lastSU.stored, lastSU.uploadId, N),
                              N)
    /\ reply.op = "fetch" =>
          \A u \in reply.uploads :
              IsMissingRanges(u.missingRanges,
                              PresentOffsets(reply.seen, u.upload._id,
                                             u.upload.chunksCount),
                              u.upload.chunksCount)

\* The part of C28 about StartUpload
C28_StartPart ==
    (lastSU.ok /\ reply.op = "start" /\ reply.before # NoRow) =>
        LET N == Ceil(lastSU.args.fileSize, lastSU.args.chunkSize)
        IN  IsMissingRanges(lastSU.missingRanges,
                            PresentOffsets(lastSU.stored, lastSU.uploadId, N),
                            N)

\* The chunk blobs a job of worker w downloads
JobBlobs(w) == FolderKeys(getInputFolder(wk[w].job[2], wk[w].upload.hash))

\* Worker w reassembles the chunk files of its folder in this step: the
\* download did not throw. The file is stored when its hash is the upload's.
Reassembles(w) ==
    wk[w].pc = "download" /\ wk'[w] # wk[w] /\ log' = log

\* C29: the file a ProcessUpload job reassembles for epoch c consists only
\* of chunk blobs written by UploadChunk calls of epoch c.
C29_ReassembledFromOwnEpoch ==
    [][\A w \in OneWorker :
         Reassembles(w) =>
            \A k \in JobBlobs(w) : blobs[k].epoch = wk[w].upload.concurrentId
      ]_vars

\* The part of C29 about blobs of a previous epoch
C29_NoEarlierEpoch ==
    [][\A w \in OneWorker :
         Reassembles(w) =>
            \A k \in JobBlobs(w) : blobs[k].epoch >= wk[w].upload.concurrentId
      ]_vars

\* Worker w takes a step of a job whose upload it has read
JobStep(w) == wk'[w] # wk[w] /\ wk[w].pc \notin {"idle", "find"}

\* The chunk rows, the chunk blobs and the uploads of another epoch than c
OtherChunkRows(rows, c) == {x \in rows : x.concurrentId # c}
OtherBlobs(store, c) == {<<k, store[k]>> : k \in {x \in DOMAIN store : store[x].epoch # c}}
OtherUploads(rows, c) == {u \in rows : u.concurrentId # c}

\* C30: a ProcessUpload job running for epoch c changes only data of epoch
\* c: it leaves the chunk rows and chunk blobs recorded under another epoch,
\* and the Upload once it is rotated to another epoch, unchanged.
C30_JobChangesOwnEpochOnly ==
    [][\A w \in OneWorker :
         JobStep(w) =>
            LET c == wk[w].upload.concurrentId
            IN  /\ OtherChunkRows(chunks', c) = OtherChunkRows(chunks, c)
                /\ OtherBlobs(blobs', c) = OtherBlobs(blobs, c)
                /\ OtherUploads(uploads', c) = OtherUploads(uploads, c)
      ]_vars

\* The part of C30 about the Upload's state
C30_UploadUnchanged ==
    [][\A w \in OneWorker :
         JobStep(w) =>
            OtherUploads(uploads', wk[w].upload.concurrentId)
              = OtherUploads(uploads, wk[w].upload.concurrentId)
      ]_vars

\* The keys of S by increasing offset
RECURSIVE ByOffset(_)
ByOffset(S) ==
    IF S = {} THEN <<>>
    ELSE LET first == CHOOSE k \in S : \A q \in S : k[3] <= q[3]
         IN  <<first>> \o ByOffset(S \ {first})

\* The chunk files of the job of worker w, concatenated from offset 0 up
InOffsetOrder(w) == Concat(blobs, ByOffset(JobBlobs(w)))

\* C31: the ProcessUpload job concatenates the chunk files by increasing
\* offset, whatever order the listing returns them in: the file it goes on
\* with is that concatenation, and it goes on whenever the SHA-256 of that
\* concatenation is the upload's hash.
C31_ConcatenatedByOffset ==
    [][\A w \in OneWorker :
         Reassembles(w) =>
            /\ wk'[w].pc = "uploadFile" => wk'[w].content = InOffsetOrder(w)
            /\ ~HashMismatch(InOffsetOrder(w), wk[w].upload.hash)
                  => wk'[w].pc = "uploadFile"
      ]_vars

\* The category indices whose regexes match file f
MatchingIndices(f) == {n \in 1..Len(incomingFolders) : matchRegexes(f, n)}

C32_SingleMatchPart ==
    \A w \in OneWorker :
        pw[w].pc \in {"uploadFolder", "transaction"} =>
            \A f \in pw[w].tree :
                Cardinality(MatchingIndices(f)) <= 1 =>
                    Cardinality({r \in pw[w].rows : r.localPath = FilePath(f)})
                        = Cardinality(MatchingIndices(f))

\* The ids createVersion gives
CreatedIds == 100..(100 + MaxVersions)

\* The version id is PROCESSING, its failed job has been removed and
\* processVersion is about to add the new one.
Redriven(id) ==
    /\ \E v \in versions : v._id = id /\ v.state = "PROCESSING"
    /\ pv.pc = "add" /\ pv.id = id
    /\ PJobsWithId(PublishJobId(id)) = {}

\* The version id is READY with UpdateFile documents
Published(id) ==
    /\ \E v \in versions : v._id = id /\ v.state = "READY"
    /\ RowsOf(files, id) # {}

\* C33: a version left PROCESSING by a failed publish job is driven again:
\* a processVersion call that finds the failed job removes it and adds a
\* new job, and from there the version becomes READY with its UpdateFile
\* documents inserted unless a step of the new job fails.
C33_FailedPublishRedriven ==
    /\ [][\A id \in CreatedIds :
            (/\ pv.pc = "idle" /\ pv'.id = id /\ pv'.count = pv.count + 1
             /\ PublishJobId(id) \in FailedJobs(pqueue))
               => pv'.pc = "remove"]_vars
    /\ [][(pv.pc = "remove" /\ pv' # pv) =>
            /\ pv'.pc = "add"
            /\ PJobsWithId(PublishJobId(pv.id)) # {}
            /\ \A i \in 1..Len(pqueue') :
                  pqueue'[i].id # PublishJobId(pv.id)]_vars
    /\ \A id \in CreatedIds :
         Redriven(id) ~> (Published(id) \/ FailedJobs(pqueue) # {})

\* A second processVersion call has removed the failed job of a version that
\* is PROCESSING, with the archive of the version in the Input store.
C33_Witness ==
    /\ pv.count = 2
    /\ \E id \in CreatedIds :
         /\ Redriven(id)
         /\ getUploadFile(toHexString(id)) \in DOMAIN zips

\* C34: a downloadFolder or uploadFolder call in which the transfer of a
\* file has failed does not resolve.
C34_FailedTransferFailsCall ==
    xfer.pc = "resolved" => ~xfer.failed

\* The part of C34 about the final wait: the first transfer to fail, when it
\* fails while the call awaits Promise.all, rejects the call, unless the
\* process ends on the unhandled rejection.
C34_FinalWaitPart ==
    [][(xfer.pc = "all" /\ ~xfer.failed /\ xfer'.failed)
          => xfer'.pc \in {"rejected", "exited"}]_vars

\* C35: at most maxParallel transfers of a downloadFolder or uploadFolder
\* call are in flight, whatever the number of files and the order in which
\* the transfers end or fail.
C35_AtMostTenInFlight ==
    Cardinality(InFlight) <= maxParallel

\* A folder of more files than the limit: the last file is being
\* transferred with maxParallel transfers in flight, after a transfer
\* has failed and one has ended.
C35_Witness ==
    /\ xfer.files > maxParallel
    /\ xfer.state[xfer.files] = "pending"
    /\ Cardinality(InFlight) = maxParallel
    /\ xfer.failed

\* The step in which the version id becomes READY
BecomesReady(id) ==
    /\ \E v \in versions : v._id = id /\ v.state # "READY"
    /\ \E v \in versions' : v._id = id /\ v.state = "READY"

\* The zip stored for the version id is the file of a READY Upload of the
\* version: the Upload is READY and the zip has the hash it declares.
ZipOfReadyUpload(id) ==
    /\ getUploadFile(toHexString(id)) \in DOMAIN zips
    /\ \E u \in uploads :
         /\ u.versionId = id
         /\ u.state = "READY"
         /\ u.hash = calculateFileHash(zips[getUploadFile(toHexString(id))])

\* C36: a version becomes READY only when the zip stored for it is the
\* assembled file of a READY Upload of the version, with the hash the Upload
\* declares now.
C36_PublishedFromReadyUpload ==
    [][\A id \in CreatedIds : BecomesReady(id) => ZipOfReadyUpload(id)]_vars

\* C37: the version of every manifest computed is the greatest (major,
\* minor, revision) among the READY versions above the client's, that is,
\* the last version by createdAt is the highest one, also when CreateVersion
\* calls overlap.
C37_ManifestVersionIsGreatest ==
    [][RSQueried =>
         \E v \in rs.versions :
            /\ preply'.version = VersionString(v.version)
            /\ \A u \in rs.versions : ~TupleLess(v.version, u.version)]_vars

\* C38: every resolve that finds versions, the last created of them being
\* V, returns V's tuple and, for every file of V in the categories of the
\* caller, V's entry; so a manifest cached before V was published is not
\* returned once V is READY and the last created.
C38_LatestVersionServed ==
    [][(RSCached \/ RSQueried) =>
         LET V == LastCreated(rs.versions)
         IN  /\ preply'.version = VersionString(V.version)
             /\ \A f \in files :
                  (/\ f.versionId = V._id
                   /\ f.category \in RelevantCategories(rs.os, rs.texture))
                     => EntryOf(V, f) \in preply'.files]_vars

\* The chunks of the epoch of upload u are all accepted, and the bytes
\* stored for them, by increasing offset, have the SHA-256 that u declares
\* (the same digest, whatever the case of its hex digits).
UploadComplete(u) ==
    /\ \A o \in 0..(Ceil(u.fileSize, u.chunkSize) - 1) :
          \E c \in chunks : /\ c.uploadId = u._id
                            /\ c.concurrentId = u.concurrentId
                            /\ c.offset = o
    /\ LET keys == FolderKeys(getInputFolder(toHexString(u._id), u.hash))
       IN  calculateFileHash(Concat(blobs, ByOffset(keys))).text = u.hash.text

\* A job has thrown: the storage backend failed
StorageFailed == \E i \in 1..Len(log) : log[i].ev = "fail"

\* C39: an Upload whose chunks are all accepted in its epoch and form a file
\* with the digest it declares, in whatever spelling it was declared,
\* becomes READY with its chunk rows deleted, unless the storage fails.
C39_CompleteUploadBecomesReady ==
    (\E u \in uploads : UploadComplete(u))
        ~> (\/ \E u \in uploads :
                  /\ u.state = "READY"
                  /\ \A c \in chunks : c.uploadId # u._id
            \/ StorageFailed)

\* The part of C39 about the spelling calculateFileHash prints
C39_LowerCasePart ==
    (\E u \in uploads : UploadComplete(u) /\ ~u.hash.upper)
        ~> (\/ \E u \in uploads :
                  /\ u.state = "READY"
                  /\ \A c \in chunks : c.uploadId # u._id
            \/ StorageFailed)

====
